---- MODULE Spec2Model ----
(***************************************************************************)
(* Deck transport of spacewave: the MixerDeck class (play, pause, seek,    *)
(* changeTempo, adjustBeat, reset, dispose, loadAudio), the audio sources  *)
(* it starts and stops, and the timeline playback controls it notifies.    *)
(* The deck followed in detail is deck1; deck2 is a second MixerDeck whose *)
(* timeline state lives beside deck1's, keyed by its deck id.               *)
(*                                                                         *)
(* Numbers are exact rationals <<n, d>> with d > 0 in lowest terms; the    *)
(* pair <<0, 0>> stands for null / undefined in a number-or-null field.    *)
(* Floating-point rounding is not modelled.                                *)
(***************************************************************************)
EXTENDS Integers, Sequences, FiniteSets, TLC

VARIABLES
    state,      \* MixerDeck.state (DeckState)
    sources,    \* audio graph: the source nodes started and neither stopped nor ended
    tl,         \* TimelineGenerator.state: deck id -> that deck's playback state
    needsRender,\* TimelineGenerator.needsRender
    clock,      \* audioContext.currentTime, in clock ticks
    loads,      \* loadAudio calls in flight, oldest first
    sincePlay,  \* history: the last successful play() and what followed it
    other,      \* deck2: its MixerDeck.state, its live sources, its load in flight
    beat,       \* a beat analysis: the peaks found and what detectBeat made of them
    registry,   \* MixerDecksProvider: decksRef, sceneRef and the decks constructed so far
    render,     \* the render loop: the camera, and what its ticks have done so far
    scan,       \* a peak scan: the channel data, its sample rate and the peaks found
    tween,      \* the camera: its position and the cameraMatrix transitions under way
    pending     \* the ended events, yet to be dispatched, of the sources deck1 stopped

vars == <<state, sources, tl, needsRender, clock, loads, sincePlay, other, beat,
          registry, render, scan, tween, pending>>

-----------------------------------------------------------------------------
(* Bounds of the model *)

MaxClock == 1
MaxLoads == 2

-----------------------------------------------------------------------------
(* Exact arithmetic on JavaScript numbers *)

Abs(n) == IF n < 0 THEN -n ELSE n

RECURSIVE GCD(_, _)
GCD(a, b) == IF b = 0 THEN a ELSE GCD(b, a % b)

Norm(n, d) ==
    LET g == GCD(Abs(n), Abs(d))
        s == IF d < 0 THEN -1 ELSE 1
    IN  <<(s * n) \div g, (s * d) \div g>>

Rat(n) == <<n, 1>>
Frac(n, d) == Norm(n, d)
NoNum == <<0, 0>>
Zero == Rat(0)
One == Rat(1)

\* an expression is evaluated once and its value named
Only(S) == CHOOSE x \in S : TRUE
Bind(v, F(_)) == Only({F(x) : x \in {v}})
Bind2(a, b, F(_, _)) == Only({F(x, y) : x \in {a}, y \in {b}})

Falsy(a) == a[1] = 0
RatAdd(a, b) == Bind2(a, b, LAMBDA x, y : Norm(x[1] * y[2] + y[1] * x[2], x[2] * y[2]))
RatSub(a, b) == Bind2(a, b, LAMBDA x, y : Norm(x[1] * y[2] - y[1] * x[2], x[2] * y[2]))
RatMul(a, b) == Bind2(a, b, LAMBDA x, y : Norm(x[1] * y[1], x[2] * y[2]))
RatDiv(a, b) == Bind2(a, b, LAMBDA x, y : Norm(x[1] * y[2], x[2] * y[1]))
RatLe(a, b) == \E x \in {a}, y \in {b} : x[1] * y[2] <= y[1] * x[2]
RatLt(a, b) == \E x \in {a}, y \in {b} : x[1] * y[2] < y[1] * x[2]
RatMin(a, b) == Bind2(a, b, LAMBDA x, y : IF RatLe(x, y) THEN x ELSE y)
RatMax(a, b) == Bind2(a, b, LAMBDA x, y : IF RatLe(x, y) THEN y ELSE x)
\* JavaScript a % b: the remainder has the sign of the dividend
Trunc(a) == Bind(a, LAMBDA x : IF x[1] >= 0 THEN x[1] \div x[2]
                               ELSE -((-x[1]) \div x[2]))
RatMod(a, b) == Bind2(a, b, LAMBDA x, y :
                    RatSub(x, RatMul(y, Rat(Trunc(RatDiv(x, y))))))

-----------------------------------------------------------------------------
(* Inputs: the tracks the server can deliver and the arguments of commands *)

Files == {"a.mp3", "b.mp3"}
\* the decoded AudioBuffer of a file (duration in seconds) and its detected tempo
TrackDuration(f) == IF f = "a.mp3" THEN Rat(2) ELSE Rat(1)
TrackTempo(f) == IF f = "a.mp3" THEN Rat(128) ELSE Rat(100)
SeekArgs == {Frac(-1, 2), Frac(1, 2), Frac(3, 2)}
TempoArgs == {Rat(1), Rat(140), Rat(1000)}
Directions == {"forward", "backward"}

-----------------------------------------------------------------------------
(* DeckState and the objects it refers to *)

NoBuffer == [file |-> "", duration |-> Zero]
NoNode == [type |-> "null", frequency |-> Zero, Q |-> Zero, gain |-> Zero]
Filter(type, frequency, q, gain) ==
    [type |-> type, frequency |-> frequency, Q |-> q, gain |-> gain]

\* MixerDeck.getInitialState, for a given AudioContext
getInitialState(audioContext) ==
    [ audioContext      |-> audioContext,
      buffer            |-> NoBuffer,
      currentFileName   |-> "",
      duration          |-> Zero,
      gainNode          |-> NoNode,
      isPlaying         |-> FALSE,
      pausedAt          |-> Zero,
      playbackRate      |-> One,
      source            |-> 0,
      startTime         |-> Zero,
      tempo             |-> NoNum,
      initialTempo      |-> NoNum,
      timelineGenerator |-> 0,
      timelineControls  |-> 0,
      cameraControls    |-> 0,
      timelineObject    |-> 0,
      status            |-> "empty",
      error             |-> "",
      bassFilter        |-> NoNode,
      midFilter         |-> NoNode,
      trebleFilter      |-> NoNode,
      colorFXFilter     |-> NoNode ]

\* TimelineGenerator.state[deckId] as createWaveformVisualization creates it
WindowWidth == 2
NoTl ==
    [ gen |-> 0, trackDuration |-> Zero, pausedAt |-> Zero, startTime |-> Zero,
      playbackRate |-> One, offset |-> Zero, isPlaying |-> FALSE,
      needsRender |-> FALSE, currentTimelineScaleX |-> One,
      targetTimelineScaleX |-> One, x |-> Zero ]
InitialTl(gen, duration) ==
    [ NoTl EXCEPT !.gen = gen, !.trackDuration = duration, !.needsRender = TRUE,
                  !.x = Frac(WindowWidth, 2) ]

\* the world a handler reads and writes
\* (gone: the sources the handler stopped, and those stopped before it whose
\* ended event is yet to be dispatched)
World(s, src, t, nr) == [s |-> s, src |-> src, tl |-> t, nr |-> nr, gone |-> {}]
\* the ended events of stopped sources are followed only where a behaviour
\* starts with none pending
NotFollowed == {[id |-> -1, onended |-> FALSE]}
\* the two decks of the mixer
Decks == {"deck1", "deck2"}
\* this.state[deckId] of the TimelineGenerator, read and written
StateOf(tls, deckId) == tls[deckId]
WithStateOfEvery(tls, deckId, t) == [d \in DOMAIN tls |-> t]
WithStateOf(tls, deckId, t) == [tls EXCEPT ![deckId] = t]
W == [World(state, sources, StateOf(tl, "deck1"), needsRender)
        EXCEPT !.gone = IF pending = NotFollowed THEN {} ELSE pending]

\* the smallest identity no live object uses
RECURSIVE FreshFrom(_, _)
FreshFrom(used, i) == IF i \in used THEN FreshFrom(used, i + 1) ELSE i
FreshSource(w) == FreshFrom({x.id : x \in w.src} \cup {w.s.source}, 1)

-----------------------------------------------------------------------------
(* Timeline playback controls (TimelineGenerator.createPlaybackControls),   *)
(* bound to this deck. A control reaches the timeline state only while the *)
(* generator that made it still holds that state.                          *)

TlBound(w) == w.s.timelineControls # 0 /\ w.tl.gen = w.s.timelineControls

\* updateTimelinePosition without the clamp of the position to the track
updateTimelinePositionUnclamped(w, now) ==
    LET d == w.tl IN
    IF d.gen = 0 \/ RatLe(d.trackDuration, Zero) THEN w
    ELSE
      LET elapsedTime == RatMul(RatSub(now, d.startTime), d.playbackRate)
          moved == IF d.isPlaying THEN RatAdd(d.pausedAt, elapsedTime) ELSE d.pausedAt
          currentPosition == RatAdd(moved, d.offset)
          progress == RatDiv(currentPosition, d.trackDuration)
          effectivePlaybackRate == RatMax(d.playbackRate, Frac(1, 10))
          target == RatMax(Frac(1, 10), RatSub(Rat(2), effectivePlaybackRate))
          targetX == RatMul(RatSub(Frac(WindowWidth, 2),
                                   RatMul(progress, Rat(WindowWidth))),
                            d.currentTimelineScaleX)
      IN [w EXCEPT !.tl = [d EXCEPT !.offset = Zero,
                                    !.targetTimelineScaleX = target,
                                    !.x = targetX,
                                    !.needsRender = TRUE],
                   !.nr = TRUE]

\* TimelineGenerator.updateTimelinePosition
updateTimelinePosition(w, now) ==
    LET d == w.tl IN
    IF d.gen = 0 \/ RatLe(d.trackDuration, Zero) THEN w
    ELSE
      LET elapsedTime == RatMul(RatSub(now, d.startTime), d.playbackRate)
          moved == IF d.isPlaying THEN RatAdd(d.pausedAt, elapsedTime) ELSE d.pausedAt
          withOffset == RatAdd(moved, d.offset)
          currentPosition == RatMax(Zero, RatMin(withOffset, d.trackDuration))
          progress == RatDiv(currentPosition, d.trackDuration)
          effectivePlaybackRate == RatMax(d.playbackRate, Frac(1, 10))
          target == RatMax(Frac(1, 10), RatSub(Rat(2), effectivePlaybackRate))
          targetX == RatMul(RatSub(Frac(WindowWidth, 2),
                                   RatMul(progress, Rat(WindowWidth))),
                            d.currentTimelineScaleX)
      IN [w EXCEPT !.tl = [d EXCEPT !.offset = Zero,
                                    !.targetTimelineScaleX = target,
                                    !.x = targetX,
                                    !.needsRender = TRUE],
                   !.nr = TRUE]

\* PlaybackControls.play
TlPlay(w, startTimeParam, playbackRateParam) ==
    IF ~TlBound(w) \/ w.tl.isPlaying THEN w
    ELSE [w EXCEPT !.tl = [w.tl EXCEPT !.startTime = startTimeParam,
                                       !.playbackRate = playbackRateParam,
                                       !.isPlaying = TRUE,
                                       !.needsRender = TRUE],
                   !.nr = TRUE]

\* PlaybackControls.pause
TlPause(w, pausedAtParam, now) ==
    IF ~TlBound(w) \/ ~w.tl.isPlaying THEN w
    ELSE Bind([w EXCEPT !.tl = [w.tl EXCEPT !.isPlaying = FALSE,
                                            !.pausedAt = pausedAtParam]],
         LAMBDA w1 : Bind(updateTimelinePosition(w1, now),
         LAMBDA w2 : [w2 EXCEPT !.tl = [w2.tl EXCEPT !.needsRender = TRUE],
                                !.nr = TRUE]))

\* a setOffset that leaves the offset for the next position update
TlSetOffsetPending(w, offsetParam, now) ==
    IF ~TlBound(w) THEN w
    ELSE [w EXCEPT !.tl = [w.tl EXCEPT !.offset = offsetParam, !.needsRender = TRUE],
                   !.nr = TRUE]

\* PlaybackControls.setOffset
TlSetOffset(w, offsetParam, now) ==
    IF ~TlBound(w) THEN w
    ELSE Bind([w EXCEPT !.tl = [w.tl EXCEPT !.offset = offsetParam]],
         LAMBDA w1 : Bind(updateTimelinePosition(w1, now),
         LAMBDA w2 : [w2 EXCEPT !.tl = [w2.tl EXCEPT !.needsRender = TRUE],
                                !.nr = TRUE]))

\* PlaybackControls.setSeekPosition
TlSetSeekPosition(w, seekTime, now) ==
    IF ~TlBound(w) THEN w
    ELSE Bind(RatMax(Zero, RatMin(seekTime, w.tl.trackDuration)),
         LAMBDA clampedSeekTime :
              Bind([w EXCEPT !.tl = [w.tl EXCEPT
                        !.pausedAt = clampedSeekTime,
                        !.startTime = IF w.tl.isPlaying THEN now ELSE @]],
         LAMBDA w1 : Bind(updateTimelinePosition(w1, now),
         LAMBDA w2 : [w2 EXCEPT !.tl = [w2.tl EXCEPT !.needsRender = TRUE],
                                !.nr = TRUE])))

\* PlaybackControls.updatePlaybackRate
TlUpdatePlaybackRate(w, newRate) ==
    IF ~TlBound(w) THEN w
    ELSE [w EXCEPT !.tl = [w.tl EXCEPT
                               !.playbackRate = RatMax(Frac(1, 10), newRate),
                               !.needsRender = TRUE],
                   !.nr = TRUE]

\* TimelineGenerator.dispose: the render loop stops and the scene state is cleared
TlDispose(w, gen) ==
    IF w.tl.gen = gen THEN [w EXCEPT !.tl = NoTl] ELSE w

-----------------------------------------------------------------------------
(* MixerDeck methods, as functions from the world before to the world after *)

MinTempo == 30
MaxTempo == 300

\* a rate automation on a source: the rate it ramps to and the rate it ramps
\* back to (NoRamp: none scheduled)
NoRamp == [peak |-> NoNum, back |-> NoNum]

\* disconnectNodes that keeps the reference to the source
disconnectNodesKeepingSource(w) ==
    [w EXCEPT !.s = [w.s EXCEPT !.gainNode = NoNode,
                                !.bassFilter = NoNode, !.midFilter = NoNode,
                                !.trebleFilter = NoNode, !.colorFXFilter = NoNode]]

\* MixerDeck.disconnectNodes: the references are dropped; a node is not stopped
disconnectNodes(w) ==
    [w EXCEPT !.s = [w.s EXCEPT !.source = 0, !.gainNode = NoNode,
                                !.bassFilter = NoNode, !.midFilter = NoNode,
                                !.trebleFilter = NoNode, !.colorFXFilter = NoNode]]

\* stop() that leaves the source running
StopSourceNot(w) == w
\* the ended event of a source that keeps its handler
DetachedNot(x) == [id |-> x.id, onended |-> x.onended]
\* source.onended = null: the ended event of the source finds no handler
Detached(x) == [id |-> x.id, onended |-> FALSE]
\* source.onended = null and AudioBufferSourceNode.stop() on the deck's
\* source: it plays no more, and its ended event will be dispatched
StopSource(w) ==
    [w EXCEPT !.src = {x \in w.src : x.id # w.s.source},
              !.gone = @ \cup {Detached(x) : x \in {y \in w.src : y.id = w.s.source}}]

\* CanPlay without the isPlaying / 'playing' rejection
CanPlayWhilePlaying(s) == s.status \in {"loaded", "paused", "playing"}
\* CanPlay accepting the status 'error'
CanPlayInError(s) == ~s.isPlaying /\ s.status \in {"loaded", "paused", "error"}
\* the first guard of play()
CanPlay(s) == ~s.isPlaying /\ s.status \in {"loaded", "paused"}
\* the second guard of play()
HasPlayParts(s) ==
    s.buffer # NoBuffer /\ s.audioContext # "null" /\ s.timelineControls # 0
\* the offset play() hands to source.start
StartOffset(s) == RatMod(s.pausedAt, s.duration)
\* source.start(0, offset) throws for an offset that is negative or not finite
StartThrows(s) == Falsy(s.duration) \/ RatLt(StartOffset(s), Zero)

\* the catch block of play()
playCatch(w) ==
    Bind([w EXCEPT !.s = [w.s EXCEPT
              !.audioContext = "running",
              !.status = "error",
              !.error = "Error during playback initiation."]],
    LAMBDA w1 : disconnectNodes(w1))

\* MixerDeck.play
play(w, now) ==
    IF ~CanPlay(w.s) THEN w
    ELSE IF ~HasPlayParts(w.s) THEN w
    ELSE IF StartThrows(w.s) THEN playCatch(w)
    ELSE
      Bind(FreshSource(w),
      LAMBDA id : Bind([ id |-> id, offset |-> StartOffset(w.s), startAt |-> now,
                         rate |-> w.s.playbackRate, bufDur |-> w.s.buffer.duration,
                         onended |-> TRUE, ramp |-> NoRamp ],
      LAMBDA node : Bind([w.s EXCEPT
                   !.audioContext = "running",
                   !.source = id,
                   !.gainNode = Filter("gain", Zero, Zero, One),
                   !.bassFilter = Filter("lowshelf", Rat(250), One, Zero),
                   !.midFilter = Filter("peaking", Rat(1000), One, Zero),
                   !.trebleFilter = Filter("highshelf", Rat(4000), One, Zero),
                   !.colorFXFilter = Filter("bandpass", Rat(1000), Frac(1, 10), Rat(-100)),
                   !.startTime = now,
                   !.isPlaying = TRUE,
                   !.status = "playing"],
      LAMBDA s1 : Bind([w EXCEPT !.s = s1, !.src = w.src \cup {node}],
      LAMBDA w1 : Bind(TlPlay(w1, s1.startTime, s1.playbackRate),
      LAMBDA w2 : TlUpdatePlaybackRate(w2, s1.playbackRate))))))

\* the guard of pause() and of adjustBeat()
HasLiveSource(s) ==
    s.isPlaying /\ s.source # 0 /\ s.audioContext # "null" /\ s.timelineControls # 0

\* PausedPosition with the elapsed clock time not scaled by the playback rate
PausedPositionUnscaled(s, now) ==
    RatMin(RatAdd(s.pausedAt, RatSub(now, s.startTime)), s.duration)
\* the position pause() computes before stopping the source
PausedPosition(s, now) ==
    RatMin(RatAdd(s.pausedAt, RatMul(RatSub(now, s.startTime), s.playbackRate)),
           s.duration)

\* pause() without its guard
pauseUnguarded(w, now) ==
    Bind(PausedPosition(w.s, now),
    LAMBDA at : Bind(StopSource(w),
    LAMBDA w1 : Bind([w1 EXCEPT !.s = [w1.s EXCEPT !.pausedAt = at,
                                                   !.isPlaying = FALSE,
                                                   !.status = "paused"]],
    LAMBDA w2 : Bind(TlPause(w2, at, now),
    LAMBDA w3 : disconnectNodes(w3)))))

\* MixerDeck.pause
pause(w, now) ==
    IF ~HasLiveSource(w.s) THEN w
    ELSE
      Bind(PausedPosition(w.s, now),
      LAMBDA at : Bind(StopSource(w),
      LAMBDA w1 : Bind([w1 EXCEPT !.s = [w1.s EXCEPT !.pausedAt = at,
                                                     !.isPlaying = FALSE,
                                                     !.status = "paused"]],
      LAMBDA w2 : Bind(TlPause(w2, at, now),
      LAMBDA w3 : disconnectNodes(w3)))))

\* CanSeek without the buffer check
CanSeekWithoutBuffer(s) == s.status \notin {"loading", "empty"}
\* the guard of seek()
CanSeek(s) == s.status \notin {"loading", "empty"} /\ s.buffer # NoBuffer
\* SeekTime without the clamp to [0, duration]
SeekTimeUnclamped(s, percentageOffset) == RatMul(percentageOffset, s.duration)
\* the time seek() resolves a fraction to
SeekTime(s, percentageOffset) ==
    RatMax(Zero, RatMin(RatMul(percentageOffset, s.duration), s.duration))

\* MixerDeck.seek: the world after, and the value returned (NoNum: undefined)
seek(w, percentageOffset, now) ==
    IF ~CanSeek(w.s) THEN [w |-> w, ret |-> NoNum]
    ELSE
      Bind(w.s.isPlaying,
      LAMBDA wasPlaying : Bind(IF wasPlaying THEN pause(w, now) ELSE w,
      LAMBDA w1 : Bind(SeekTime(w1.s, percentageOffset),
      LAMBDA seekTime : Bind([w1 EXCEPT !.s = [w1.s EXCEPT !.pausedAt = seekTime]],
      LAMBDA w2 : Bind(IF w2.s.timelineControls # 0
                       THEN TlSetSeekPosition(w2, seekTime, now) ELSE w2,
      LAMBDA w3 : Bind(IF wasPlaying THEN play(w3, now)
                       ELSE IF w3.s.timelineControls # 0
                            THEN TlPause(w3, seekTime, now)
                            ELSE w3,
      LAMBDA w4 : [w |-> w4, ret |-> seekTime]))))))

\* the guard of changeTempo()
CanChangeTempo(s) == ~Falsy(s.initialTempo) /\ s.status # "empty"
\* SafeTempo without the clamp to [MinTempo, MaxTempo]
SafeTempoUnclamped(newTempo) == newTempo
\* the tempo changeTempo() clamps its argument to
SafeTempo(newTempo) == RatMax(Rat(MinTempo), RatMin(Rat(MaxTempo), newTempo))
\* TempoPauseTime with the elapsed clock time not scaled by the playback rate
TempoPauseTimeUnscaled(s, now) ==
    RatMin(RatAdd(s.pausedAt, RatSub(now, s.startTime)), s.duration)
\* TempoPauseTime without the clamp to the duration
TempoPauseTimeUnclamped(s, now) ==
    RatAdd(s.pausedAt, RatMul(RatSub(now, s.startTime), s.playbackRate))
\* the position changeTempo() captures, with the rate in force before the change
TempoPauseTime(s, now) ==
    RatMin(RatAdd(s.pausedAt, RatMul(RatSub(now, s.startTime), s.playbackRate)),
           s.duration)
\* NewPlaybackRate with the quotient inverted
NewPlaybackRateInverse(s, safeTempo) == RatDiv(s.initialTempo, safeTempo)
\* the rate changeTempo() derives from the clamped tempo
NewPlaybackRate(s, safeTempo) == RatDiv(safeTempo, s.initialTempo)

\* the pause logic inside changeTempo(), for a deck that plays
StopAtTempoChange(w, pauseTime, now) ==
    Bind(StopSource(w),
    LAMBDA a : Bind([a EXCEPT !.s = [a.s EXCEPT !.isPlaying = FALSE,
                                                !.status = "paused"]],
    LAMBDA b : Bind(IF b.s.timelineControls # 0
                    THEN TlPause(b, pauseTime, now) ELSE b,
    LAMBDA c : disconnectNodes(c))))

\* changeTempo that gives way to other callbacks after its pause logic
changeTempoYielding(w, newTempo, now) ==
    IF ~CanChangeTempo(w.s) THEN w
    ELSE IF w.s.tempo = SafeTempo(newTempo) THEN w
    ELSE IF w.s.isPlaying /\ w.s.source # 0 /\ w.s.audioContext # "null"
         THEN StopAtTempoChange(w, TempoPauseTime(w.s, now), now)
         ELSE w

\* MixerDeck.changeTempo
changeTempo(w, newTempo, now) ==
    IF ~CanChangeTempo(w.s) THEN w
    ELSE IF w.s.tempo = SafeTempo(newTempo) THEN w
    ELSE
      Bind(SafeTempo(newTempo),
      LAMBDA safeTempo : Bind(NewPlaybackRate(w.s, safeTempo),
      LAMBDA newPlaybackRate : Bind(w.s.isPlaying,
      LAMBDA wasPlaying :
          Bind(wasPlaying /\ w.s.source # 0 /\ w.s.audioContext # "null",
      LAMBDA stops :
          Bind(IF stops THEN TempoPauseTime(w.s, now) ELSE w.s.pausedAt,
      LAMBDA pauseTime :
          Bind(IF stops THEN StopAtTempoChange(w, pauseTime, now) ELSE w,
      LAMBDA w1 :
          Bind([w1 EXCEPT !.s = [w1.s EXCEPT !.pausedAt = pauseTime,
                                             !.playbackRate = newPlaybackRate,
                                             !.tempo = safeTempo]],
      LAMBDA w2 :
          Bind(IF w2.s.timelineControls # 0
               THEN TlUpdatePlaybackRate(w2, newPlaybackRate) ELSE w2,
      LAMBDA w3 : IF wasPlaying THEN play(w3, now) ELSE w3))))))))

\* the ramp adjustBeat() schedules: to 1.05 or 0.95 of the playback rate and
\* back to the playback rate
NudgeRamp(s, direction) ==
    [peak |-> RatMul(s.playbackRate,
                     IF direction = "forward" THEN Frac(21, 20) ELSE Frac(19, 20)),
     back |-> s.playbackRate]

\* adjustBeat() that leaves the nudged rate in state.playbackRate
adjustBeatSticky(w, direction, now) ==
    IF ~HasLiveSource(w.s) THEN w
    ELSE [w EXCEPT !.s = [w.s EXCEPT
              !.playbackRate = NudgeRamp(w.s, direction).peak]]

\* MixerDeck.adjustBeat: a rate ramp on the live source and a one-shot visual
\* offset. The ramp displaces the source by less than one clock tick.
adjustBeat(w, direction, now) ==
    IF ~HasLiveSource(w.s) THEN w
    ELSE
      LET visualOffsetAmount ==
              IF direction = "forward" THEN Frac(1, 10) ELSE Frac(-1, 10)
      IN Bind(NudgeRamp(w.s, direction),
         LAMBDA ramp : Bind({IF x.id = w.s.source
                             THEN [x EXCEPT !.ramp = ramp]
                             ELSE x : x \in w.src},
         LAMBDA ramped : Bind([w EXCEPT !.src = ramped],
         LAMBDA w1 : TlSetOffset(w1, visualOffsetAmount, now))))

\* reset() without the pause() of a playing deck
resetWithoutPause(w, now) ==
    Bind(IF w.s.timelineGenerator # 0
         THEN TlDispose(w, w.s.timelineGenerator) ELSE w,
    LAMBDA w2 : Bind(disconnectNodes(w2),
    LAMBDA w3 : [w3 EXCEPT !.s = getInitialState(w3.s.audioContext)]))

\* MixerDeck.reset
reset(w, now) ==
    Bind(IF w.s.isPlaying THEN pause(w, now) ELSE w,
    LAMBDA w1 : Bind(IF w1.s.timelineGenerator # 0
                     THEN TlDispose(w1, w1.s.timelineGenerator) ELSE w1,
    LAMBDA w2 : Bind(disconnectNodes(w2),
    LAMBDA w3 : [w3 EXCEPT !.s = getInitialState(w3.s.audioContext)])))

\* MixerDeck.dispose
dispose(w, now) ==
    Bind(reset(w, now),
    LAMBDA w1 : [w1 EXCEPT !.s = [w1.s EXCEPT !.audioContext = "null"]])

\* currentTime without the clamp to the duration
currentTimeUnclamped(s, now) ==
    IF s.audioContext = "null" THEN s.pausedAt
    ELSE IF s.isPlaying
         THEN RatAdd(s.pausedAt, RatMul(RatSub(now, s.startTime), s.playbackRate))
         ELSE s.pausedAt

\* MixerDeck.currentTime
currentTime(s, now) ==
    IF s.audioContext = "null" THEN s.pausedAt
    ELSE IF s.isPlaying
         THEN RatMin(RatAdd(s.pausedAt,
                            RatMul(RatSub(now, s.startTime), s.playbackRate)),
                     s.duration)
         ELSE s.pausedAt

-----------------------------------------------------------------------------
(* MixerDeck.loadAudio: the synchronous start and the continuation of each  *)
(* await. A call in flight is [file, pc, gen]: pc names the promise it     *)
(* awaits, gen the TimelineGenerator it constructed (0: none yet).         *)

FreshGenerator(w, ls) ==
    FreshFrom({w.s.timelineGenerator, w.s.timelineControls, w.tl.gen}
                  \cup {ls[i].gen : i \in DOMAIN ls}, 1)

\* loadAudio up to its first await: reset(), status 'loading', the context check
loadAudioBegin(w, now) ==
    Bind(reset(w, now),
    LAMBDA w1 : Bind([w1.s EXCEPT !.status = "loading"],
    LAMBDA s1 : IF s1.audioContext = "null"
                THEN [w1 EXCEPT !.s = [s1 EXCEPT
                         !.status = "error",
                         !.error = "AudioContext not available."]]
                ELSE [w1 EXCEPT !.s = s1]))

\* the catch block around audioContext.resume(), leaving the status as it is
loadResumeIgnored(w) == w
\* the catch block around audioContext.resume()
loadResumeFailed(w) ==
    [w EXCEPT !.s = [w.s EXCEPT !.status = "error",
                                !.error = "Failed to resume AudioContext."]]

\* the catch block of loadAudio
loadCatch(w, now) ==
    Bind([w EXCEPT !.s = [w.s EXCEPT !.status = "error",
                                     !.error = "Unknown error during loading."]],
    LAMBDA w1 : reset(w1, now))

\* after decodeAudioData: the buffer, its duration and a new TimelineGenerator
loadDecoded(w, f, gen) ==
    [w EXCEPT !.s = [w.s EXCEPT
        !.buffer = [file |-> f, duration |-> TrackDuration(f)],
        !.duration = TrackDuration(f),
        !.timelineGenerator = gen]]

\* after timelineGenerator.initialize(): controls, tempo and status 'loaded'
loadInitialized(w, f, gen) ==
    [w EXCEPT !.s = [w.s EXCEPT
        !.cameraControls = gen,
        !.timelineObject = gen,
        !.timelineControls = gen,
        !.tempo = TrackTempo(f),
        !.initialTempo = TrackTempo(f),
        !.status = "loaded",
        !.error = "",
        !.currentFileName = f],
             !.tl = InitialTl(gen, TrackDuration(f)),
             !.nr = TRUE]

\* source.onended as play() installs it
onended(w) ==
    IF w.s.isPlaying
    THEN Bind([w EXCEPT !.s = [w.s EXCEPT !.isPlaying = FALSE,
                                          !.pausedAt = w.s.duration,
                                          !.status = "loaded"]],
         LAMBDA w1 : disconnectNodes(w1))
    ELSE w

\* a source ends: it leaves the audio graph and its ended event is dispatched
ended(w, x) ==
    Bind([w EXCEPT !.src = w.src \ {x}],
    LAMBDA w1 : IF x.onended THEN onended(w1) ELSE w1)

\* the source has played its buffer to the end
ReachedEnd(x, now) ==
    RatLe(x.bufDur, RatAdd(x.offset, RatMul(RatSub(now, x.startAt), x.rate)))

-----------------------------------------------------------------------------
(* Actions *)

Now == Rat(clock)
\* sincePlay.set: play() succeeded (from pausedAt p, at time t0, with rate r) and
\* no command was issued since; ended: its source then played to the end;
\* pauses: the pause() calls that followed it with no other command between
\* (counted up to MaxPauses).
MaxPauses == 2
NoPlay == [set |-> FALSE, p |-> Zero, t0 |-> Zero, r |-> Zero, ended |-> FALSE,
           pauses |-> 0]

\* deck2's loadAudio call in flight; pc "idle": none
NoCall == [file |-> "", gen |-> 0, pc |-> "idle"]

\* the provider as mounted: decksRef an empty Map (0: no entry under the id),
\* sceneRef null, no deck constructed
NoDecks == [scene |-> FALSE, decks |-> [id \in {"deck1", "deck2"} |-> 0], made |-> <<>>]

\* the render loop before its first tick: the camera where it starts, its
\* aspect that of the window; history: drew, whether the last tick drew, and
\* eased, how many ticks have moved a scale without reaching its target
NoRender == [camera |-> 0, aspect |-> 0, drew |-> FALSE, eased |-> 0]

\* the camera where createCamera puts it, (0, 0, 4), with no transition under
\* way; a position is the camera's distance along the z axis, the one
\* coordinate the positions of the side mode differ in. history: calls, the
\* cameraMatrix calls made, and wrote, the transitions that wrote the position
\* in the last animation frame
NoTween == [position |-> Rat(4), active |-> <<>>, calls |-> 0, wrote |-> 0]

\* no channel data has been scanned
NoScan == [pc |-> "none", sampleRate |-> 0, loud |-> {}, peaks |-> <<>>]

\* no beat analysis is being followed
NoAnalysis == [pc |-> "none", peaks |-> <<>>, result |-> [ok |-> FALSE]]

Commit(after) ==
    /\ other' = other
    /\ UNCHANGED <<beat, registry, render, scan, tween>>
    /\ \E w \in {after} :
          /\ state' = w.s
          /\ sources' = w.src
          /\ pending' = IF pending = NotFollowed THEN NotFollowed ELSE w.gone
          /\ tl' = WithStateOf(tl, "deck1", w.tl)
          /\ needsRender' = w.nr

Init ==
    /\ state \in {getInitialState(c) : c \in {"suspended", "running"}}
    /\ sources = {}
    /\ tl = [d \in Decks |-> NoTl]
    /\ needsRender = TRUE
    /\ clock = 0
    /\ loads = <<>>
    /\ sincePlay = NoPlay
    /\ other = [s |-> getInitialState("suspended"), src |-> {}, call |-> NoCall]
    /\ beat = NoAnalysis
    /\ registry = NoDecks
    /\ render = NoRender
    /\ scan = NoScan
    /\ tween = NoTween
    /\ pending = NotFollowed

\* the audio clock advances while the context runs
Tick ==
    /\ state.audioContext = "running"
    /\ clock < MaxClock
    /\ clock' = clock + 1
    /\ UNCHANGED <<state, sources, tl, needsRender, loads, sincePlay, other, beat,
                   registry, render, scan, tween, pending>>

Play ==
    /\ Commit(play(W, Now))
    /\ sincePlay' = IF ~state.isPlaying /\ state'.isPlaying
                    THEN [set |-> TRUE, p |-> state.pausedAt, t0 |-> Now,
                          r |-> state.playbackRate, ended |-> FALSE,
                          pauses |-> 0]
                    ELSE NoPlay
    /\ UNCHANGED <<clock, loads>>

Pause ==
    /\ Commit(pause(W, Now))
    /\ sincePlay' = IF sincePlay.set \/ sincePlay.pauses > 0
                    THEN [NoPlay EXCEPT !.ended = sincePlay.ended,
                                        !.pauses = IF sincePlay.pauses < MaxPauses
                                                   THEN sincePlay.pauses + 1
                                                   ELSE MaxPauses]
                    ELSE NoPlay
    /\ UNCHANGED <<clock, loads>>

Seek(f) ==
    /\ Commit(seek(W, f, Now).w)
    /\ sincePlay' = NoPlay
    /\ UNCHANGED <<clock, loads>>

ChangeTempo(bpm) ==
    /\ Commit(changeTempo(W, bpm, Now))
    /\ sincePlay' = NoPlay
    /\ UNCHANGED <<clock, loads>>

AdjustBeat(direction) ==
    /\ Commit(adjustBeat(W, direction, Now))
    /\ sincePlay' = NoPlay
    /\ UNCHANGED <<clock, loads>>

Reset ==
    /\ Commit(reset(W, Now))
    /\ sincePlay' = NoPlay
    /\ UNCHANGED <<clock, loads>>

Dispose ==
    /\ Commit(dispose(W, Now))
    /\ sincePlay' = NoPlay
    /\ UNCHANGED <<clock, loads>>

\* a live source reaches the end of its buffer
NaturalEnd ==
    /\ \E x \in sources :
         /\ ReachedEnd(x, Now)
         /\ Commit(ended(W, x))
    /\ sincePlay' = IF sincePlay.set THEN [sincePlay EXCEPT !.ended = TRUE]
                    ELSE NoPlay
    /\ UNCHANGED <<clock, loads>>

Without(ls, i) == [j \in 1..(Len(ls) - 1) |-> IF j < i THEN ls[j] ELSE ls[j + 1]]
\* History kept in a call in flight: later is the file of the most recent
\* loadAudio call made after it ("": none), laterDone how that call settled
\* ("": not yet), overlapped whether another call was in flight when it began.
\* call i returns: when it is the most recent call, those still in flight note
\* how it settled
Settle(ls, i, outcome) ==
    Without([j \in DOMAIN ls |->
                IF ls[i].later = "" /\ j # i
                THEN [ls[j] EXCEPT !.laterDone = outcome]
                ELSE ls[j]], i)
\* a new call begins: those in flight note its file
Overtaken(ls, f) ==
    [j \in DOMAIN ls |-> [ls[j] EXCEPT !.later = f, !.laterDone = ""]]
Awaiting(ls, i, pc) == [ls EXCEPT ![i].pc = pc]

\* loadAudio(fileName) is called
LoadAudio(f) ==
    /\ Commit(loadAudioBegin(W, Now))
    /\ loads' = IF state'.status = "error"
                THEN loads
                ELSE Append(Overtaken(loads, f),
                        [file |-> f, gen |-> 0,
                         pc |-> IF state.audioContext = "suspended"
                                THEN "resume" ELSE "fetch",
                         later |-> "", laterDone |-> "",
                         overlapped |-> loads # <<>>])
    /\ sincePlay' = NoPlay
    /\ UNCHANGED clock

\* the catch block runs and the call returns false
LoadFails(i) ==
    /\ Commit(loadCatch(W, Now))
    /\ loads' = Settle(loads, i, "failed")

\* await audioContext.resume() settles
LoadResumed(i, ok) ==
    /\ loads[i].pc = "resume"
    /\ IF ok
       THEN /\ state.audioContext # "null"
            /\ Commit([W EXCEPT !.s = [state EXCEPT !.audioContext = "running"]])
            /\ loads' = Awaiting(loads, i, "fetch")
       ELSE /\ Commit(loadResumeFailed(W))
            /\ loads' = Settle(loads, i, "failed")
    /\ sincePlay' = NoPlay
    /\ UNCHANGED clock

\* await fetch(...) settles; a response that is not ok throws
LoadFetched(i, ok) ==
    /\ loads[i].pc = "fetch"
    /\ IF ok
       THEN /\ Commit(W)
            /\ loads' = Awaiting(loads, i, "arrayBuffer")
       ELSE LoadFails(i)
    /\ sincePlay' = NoPlay
    /\ UNCHANGED clock

\* await response.arrayBuffer() settles; decodeAudioData is called on the context
LoadBodyRead(i, ok) ==
    /\ loads[i].pc = "arrayBuffer"
    /\ IF ok /\ state.audioContext # "null"
       THEN /\ Commit(W)
            /\ loads' = Awaiting(loads, i, "decode")
       ELSE LoadFails(i)
    /\ sincePlay' = NoPlay
    /\ UNCHANGED clock

\* await decodeAudioData(...) settles; the TimelineGenerator is constructed
LoadDecoded(i, ok) ==
    /\ loads[i].pc = "decode"
    /\ IF ok
       THEN /\ Commit(loadDecoded(W, loads[i].file, FreshGenerator(W, loads)))
            /\ loads' = [loads EXCEPT ![i].pc = "initialize",
                                      ![i].gen = FreshGenerator(W, loads)]
       ELSE LoadFails(i)
    /\ sincePlay' = NoPlay
    /\ UNCHANGED clock

\* await timelineGenerator.initialize() settles (it runs the beat detection)
LoadInitialized(i, ok) ==
    /\ loads[i].pc = "initialize"
    /\ IF ok
       THEN /\ Commit(loadInitialized(W, loads[i].file, loads[i].gen))
            /\ loads' = Settle(loads, i, "loaded")
       ELSE LoadFails(i)
    /\ sincePlay' = NoPlay
    /\ UNCHANGED clock

LoadStep ==
    \E i \in DOMAIN loads, ok \in BOOLEAN :
        \/ LoadResumed(i, ok)
        \/ LoadFetched(i, ok)
        \/ LoadBodyRead(i, ok)
        \/ LoadDecoded(i, ok)
        \/ LoadInitialized(i, ok)

Command ==
    \/ Play
    \/ Pause
    \/ \E f \in SeekArgs : Seek(f)
    \/ \E bpm \in TempoArgs : ChangeTempo(bpm)
    \/ \E direction \in Directions : AdjustBeat(direction)
    \/ Reset
    \/ Dispose

\* the caller starts a load only when none is in flight on the deck
Next ==
    \/ Tick
    \/ Command
    \/ NaturalEnd
    \/ LoadStep
    \/ \E f \in Files : loads = <<>> /\ LoadAudio(f)

Spec == Init /\ [][Next]_vars

\* a caller that starts a load while others are in flight, and plays and
\* pauses what the deck holds
NextOverlap ==
    \/ Tick
    \/ Play
    \/ Pause
    \/ NaturalEnd
    \/ LoadStep
    \/ \E f \in Files : Len(loads) < MaxLoads /\ LoadAudio(f)

SpecOverlap == Init /\ [][NextOverlap]_vars

\* the ended event of a source that was stopped is dispatched: its handler,
\* if it still has one, runs
StoppedEnded ==
    /\ pending # NotFollowed
    /\ \E x \in pending :
         \E w \in {[W EXCEPT !.gone = @ \ {x}]} :
             Commit(IF x.onended THEN onended(w) ELSE w)
    /\ UNCHANGED <<clock, loads, sincePlay>>

\* a deck from its construction, the ended events of the sources it stops
\* followed
InitEnded ==
    /\ state = getInitialState("running")
    /\ sources = {}
    /\ tl = [d \in Decks |-> NoTl]
    /\ needsRender = TRUE
    /\ clock = 0
    /\ loads = <<>>
    /\ sincePlay = NoPlay
    /\ other = [s |-> getInitialState("suspended"), src |-> {}, call |-> NoCall]
    /\ beat = NoAnalysis
    /\ registry = NoDecks
    /\ render = NoRender
    /\ scan = NoScan
    /\ tween = NoTween
    /\ pending = {}

MaxPending == 1
\* a command that may stop a source waits while MaxPending ended events are
\* yet to be dispatched
NextEnded ==
    \/ Tick
    \/ Play
    \/ NaturalEnd
    \/ StoppedEnded
    \/ LoadStep
    \/ /\ Cardinality(pending) < MaxPending
       /\ \/ Pause
          \/ \E f \in SeekArgs : Seek(f)
          \/ \E bpm \in TempoArgs : ChangeTempo(bpm)
          \/ Reset
          \/ \E f \in Files : loads = <<>> /\ LoadAudio(f)

SpecEnded == InitEnded /\ [][NextEnded]_vars

-----------------------------------------------------------------------------
(* The second deck. deck2 is a MixerDeck of its own: its state, its sources *)
(* and its loadAudio call are its own, and its timeline controls read and   *)
(* write the entry of the timeline state kept under its deck id.            *)

W2 == World(other.s, other.src, StateOf(tl, "deck2"), needsRender)

Commit2(after, call) ==
    /\ UNCHANGED <<state, sources, clock, loads, sincePlay, beat, registry, render, scan, tween, pending>>
    /\ \E w \in {after} :
          /\ other' = [s |-> w.s, src |-> w.src, call |-> call]
          /\ tl' = WithStateOf(tl, "deck2", w.tl)
          /\ needsRender' = w.nr

\* the continuation of the await a loadAudio call is at: the deck and the call after it
loadContinue(w, call, ok, now) ==
    CASE call.pc = "resume" ->
            IF ok THEN [w |-> [w EXCEPT !.s = [w.s EXCEPT !.audioContext = "running"]],
                        call |-> [call EXCEPT !.pc = "fetch"]]
                  ELSE [w |-> loadResumeFailed(w), call |-> NoCall]
      [] call.pc = "fetch" ->
            IF ok THEN [w |-> w, call |-> [call EXCEPT !.pc = "arrayBuffer"]]
                  ELSE [w |-> loadCatch(w, now), call |-> NoCall]
      [] call.pc = "arrayBuffer" ->
            IF ok /\ w.s.audioContext # "null"
            THEN [w |-> w, call |-> [call EXCEPT !.pc = "decode"]]
            ELSE [w |-> loadCatch(w, now), call |-> NoCall]
      [] call.pc = "decode" ->
            IF ok THEN Bind(FreshGenerator(w, <<call>>),
                       LAMBDA gen : [w |-> loadDecoded(w, call.file, gen),
                                     call |-> [call EXCEPT !.pc = "initialize",
                                                           !.gen = gen]])
                  ELSE [w |-> loadCatch(w, now), call |-> NoCall]
      [] call.pc = "initialize" ->
            IF ok THEN [w |-> loadInitialized(w, call.file, call.gen), call |-> NoCall]
                  ELSE [w |-> loadCatch(w, now), call |-> NoCall]

OtherPlay == Commit2(play(W2, Now), other.call)
OtherPause == Commit2(pause(W2, Now), other.call)
OtherSeek(f) == Commit2(seek(W2, f, Now).w, other.call)
OtherChangeTempo(bpm) == Commit2(changeTempo(W2, bpm, Now), other.call)
OtherAdjustBeat(direction) == Commit2(adjustBeat(W2, direction, Now), other.call)

\* deck2.loadAudio(fileName) is called while none is in flight on deck2
OtherLoadAudio(f) ==
    /\ other.call.pc = "idle"
    /\ \E w \in {loadAudioBegin(W2, Now)} :
          Commit2(w, IF w.s.status = "error"
                     THEN NoCall
                     ELSE [file |-> f, gen |-> 0,
                           pc |-> IF other.s.audioContext = "suspended"
                                  THEN "resume" ELSE "fetch"])

\* the await deck2's loadAudio call is at settles
OtherLoadStep(ok) ==
    /\ other.call.pc # "idle"
    /\ \/ other.call.pc # "resume"
       \/ ~ok
       \/ other.s.audioContext # "null"
    /\ \E r \in {loadContinue(W2, other.call, ok, Now)} : Commit2(r.w, r.call)

\* what the two-deck mixer is driven with
DeckFiles == {"b.mp3"}
DeckSeekArgs == {Frac(1, 2)}
DeckTempoArgs == {Rat(140)}

Deck1Step ==
    \/ Play
    \/ Pause
    \/ \E f \in DeckSeekArgs : Seek(f)
    \/ \E bpm \in DeckTempoArgs : ChangeTempo(bpm)
    \/ \E direction \in Directions : AdjustBeat(direction)
    \/ \E f \in DeckFiles : loads = <<>> /\ LoadAudio(f)
    \/ LoadStep

Deck2Step ==
    \/ OtherPlay
    \/ OtherPause
    \/ \E f \in DeckSeekArgs : OtherSeek(f)
    \/ \E bpm \in DeckTempoArgs : OtherChangeTempo(bpm)
    \/ \E direction \in Directions : OtherAdjustBeat(direction)
    \/ \E f \in DeckFiles : OtherLoadAudio(f)
    \/ \E ok \in BOOLEAN : OtherLoadStep(ok)

NextDecks ==
    \/ Tick
    \/ Deck1Step
    \/ Deck2Step

SpecDecks == Init /\ [][NextDecks]_vars

-----------------------------------------------------------------------------
(* Beat detection: what the three detectBeat functions make of the peaks    *)
(* found in the low-passed audio. A peak is a sample index; the peaks of a  *)
(* list increase strictly, as the peak finders advance past each peak they  *)
(* push. The audio is ChannelLength samples at SampleRate samples a second. *)

SampleRate == 4
ChannelLength == 30
MaxPeaks == 3

Min(a, b) == IF a <= b THEN a ELSE b
SecondsOf(samples) == Frac(samples, SampleRate)
\* a HarmonySection from one sample index to another
Section(from, to) ==
    [start |-> SecondsOf(from), end |-> SecondsOf(to), duration |-> SecondsOf(to - from)]

\* Math.round of a positive number
Round(x) == Bind(x, LAMBDA v : Rat((2 * v[1] + v[2]) \div (2 * v[2])))
\* Number(x.toFixed(2)) of a positive number
ToFixed2(x) == Bind(x, LAMBDA v : Frac((200 * v[1] + v[2]) \div (2 * v[2]), 100))

\* harmonySections.filter(section => section.duration >= 0.5), and the list unfiltered
AllSections(sections) == sections
SignificantSections(sections) ==
    SelectSeq(sections, LAMBDA x : RatLe(Frac(1, 2), x.duration))

\* the sections between consecutive peaks whose gap exceeds the threshold (in seconds)
GapSections(peaks, threshold) ==
    SelectSeq([i \in 1..(Len(peaks) - 1) |-> Section(peaks[i], peaks[i + 1])],
              LAMBDA x : RatLt(threshold, x.duration))

\* detectHarmonySections; lastPeak stays 0 unless the loop over the gaps runs
detectHarmonySections(peaks, channelLength, tempo) ==
    Bind(IF Len(peaks) > 1 THEN peaks[Len(peaks)] ELSE 0,
    LAMBDA lastPeak :
        SignificantSections(
            (IF peaks[1] > 0 THEN <<Section(0, peaks[1])>> ELSE <<>>)
            \o GapSections(peaks, RatMul(RatDiv(Rat(60), tempo), Frac(3, 2)))
            \o (IF lastPeak < channelLength
                THEN <<Section(lastPeak, channelLength)>> ELSE <<>>)))

\* count more occurrences of a key in a histogram kept in first-push order
AddCount(hist, key, n) ==
    IF \E j \in DOMAIN hist : hist[j].key = key
    THEN Bind(CHOOSE j \in DOMAIN hist : hist[j].key = key,
         LAMBDA j : [hist EXCEPT ![j].count = @ + n])
    ELSE Append(hist, [key |-> key, count |-> n])

\* peaks.forEach: the intervals from each peak to the ten peaks that follow it
RECURSIVE IntervalsFrom(_, _)
IntervalsFrom(peaks, index) ==
    IF index > Len(peaks) THEN <<>>
    ELSE [i \in 1..Min(10, Len(peaks) - index) |-> peaks[index + i] - peaks[index]]
         \o IntervalsFrom(peaks, index + 1)

RECURSIVE IntervalCounts(_, _, _)
IntervalCounts(intervals, k, hist) ==
    IF k > Len(intervals) THEN hist
    ELSE Bind(AddCount(hist, intervals[k], 1),
         LAMBDA h : IntervalCounts(intervals, k + 1, h))

\* while (theoreticalTempo < 90) theoreticalTempo *= 2
RECURSIVE Doubled(_)
Doubled(t) == Bind(t, LAMBDA v : IF RatLt(v, Rat(90)) THEN Doubled(RatMul(v, Rat(2))) ELSE v)
\* a tempo left as it is
HalvedNever(t) == t
\* while (theoreticalTempo > 180) theoreticalTempo /= 2
RECURSIVE Halved(_)
Halved(t) == Bind(t, LAMBDA v : IF RatLt(Rat(180), v) THEN Halved(RatDiv(v, Rat(2))) ELSE v)
\* the tempo an interval in samples suggests, folded into 90..180 BPM and rounded
TheoreticalTempo(interval) ==
    Round(Halved(Doubled(RatDiv(Rat(60), SecondsOf(interval)))))
\* the tempo an interval in samples suggests, to two decimals
TheoreticalTempo2(interval) == ToFixed2(RatDiv(Rat(60), SecondsOf(interval)))

\* intervalCounts.forEach: the histogram of the tempos the intervals suggest
\* (suggested: the tempo each counted interval suggests, with the interval's count)
RECURSIVE TempoCounts(_, _, _)
TempoCounts(suggested, k, hist) ==
    IF k > Len(suggested) THEN hist
    ELSE Bind(AddCount(hist, suggested[k].key, suggested[k].count),
         LAMBDA h : TempoCounts(suggested, k + 1, h))

\* a sort by count that puts the last of equal counts first
RECURSIVE SortByCountLastFirst(_)
SortByCountLastFirst(hist) ==
    IF hist = <<>> THEN <<>>
    ELSE Bind(CHOOSE j \in DOMAIN hist :
                  \A k \in DOMAIN hist :
                      \/ hist[k].count < hist[j].count
                      \/ hist[k].count = hist[j].count /\ j >= k,
         LAMBDA j : <<hist[j]>> \o SortByCountLastFirst(Without(hist, j)))

\* tempoCounts.sort((a, b) => b.count - a.count): stable, largest count first
RECURSIVE SortByCount(_)
SortByCount(hist) ==
    IF hist = <<>> THEN <<>>
    ELSE Bind(CHOOSE j \in DOMAIN hist :
                  \A k \in DOMAIN hist :
                      \/ hist[k].count < hist[j].count
                      \/ hist[k].count = hist[j].count /\ j <= k,
         LAMBDA j : <<hist[j]>> \o SortByCount(Without(hist, j)))

\* tempoCounts before it is sorted: the tempos the intervals suggest, each with
\* the number of intervals behind it, in the order they were first pushed
TempoHistogram(peaks) ==
    Bind(IntervalCounts(IntervalsFrom(peaks, 1), 1, <<>>),
    LAMBDA ic :
        TempoCounts([k \in DOMAIN ic |-> [key |-> TheoreticalTempo(ic[k].key),
                                          count |-> ic[k].count]], 1, <<>>))

\* the tempo with the most intervals behind it (null when there is no interval)
DetectedTempo(peaks) ==
    Bind(SortByCount(TempoHistogram(peaks)),
    LAMBDA sorted : IF sorted = <<>> THEN NoNum ELSE sorted[1].key)

MINIMUN_TEMPO == 120
MAXIMUM_TEMPO == 150
\* the tempo of the long-gap detector: the mean of the two best tempos, those
\* between MINIMUN_TEMPO and MAXIMUM_TEMPO first
DetectedTempoLongGaps(peaks) ==
    Bind(IntervalCounts([i \in 1..(Len(peaks) - 1) |-> peaks[i + 1] - peaks[i]],
                        1, <<>>),
    LAMBDA ic :
    Bind(SortByCount(TempoCounts(
            [k \in DOMAIN ic |-> [key |-> TheoreticalTempo2(ic[k].key),
                                  count |-> ic[k].count]], 1, <<>>)),
    LAMBDA tempoCounts :
        Bind(SelectSeq(tempoCounts, LAMBDA tc : /\ RatLe(Rat(MINIMUN_TEMPO), tc.key)
                                                /\ RatLe(tc.key, Rat(MAXIMUM_TEMPO))),
        LAMBDA validTempos :
            IF Len(validTempos) >= 2
            THEN ToFixed2(RatDiv(RatAdd(validTempos[1].key, validTempos[2].key), Rat(2)))
            ELSE IF Len(validTempos) = 1 THEN validTempos[1].key
            ELSE IF Len(tempoCounts) >= 2
            THEN ToFixed2(RatDiv(RatAdd(tempoCounts[1].key, tempoCounts[2].key), Rat(2)))
            ELSE IF Len(tempoCounts) = 1 THEN tempoCounts[1].key
            ELSE NoNum)))

Rejected(message) == [ok |-> FALSE, error |-> message]
\* const beatInterval = 60 / detectedTempo, and the quotient taken the other way round
beatIntervalInverse(detectedTempo) == RatDiv(detectedTempo, Rat(60))
beatInterval(detectedTempo) == RatDiv(Rat(60), detectedTempo)
Resolved(tempo, peaks, sections) ==
    [ok |-> TRUE,
     tempo |-> tempo,
     firstBeatOffset |-> SecondsOf(peaks[1]),
     beatInterval |-> beatInterval(tempo),
     harmonySections |-> sections,
     beats |-> [i \in DOMAIN peaks |-> SecondsOf(peaks[i])]]

\* detectBeat of the beat tracker: sections first (gaps against 120 BPM), then the tempo
detectBeat(peaks, channelLength) ==
    IF Len(peaks) = 0 THEN Rejected("No se detectaron picos en el audio.")
    ELSE Bind2(detectHarmonySections(peaks, channelLength, Rat(120)), DetectedTempo(peaks),
         LAMBDA sections, tempo :
             IF Falsy(tempo) THEN Rejected("No se pudo determinar el tempo.")
             ELSE Resolved(tempo, peaks, sections))

\* detectBeat with the dynamic cutoff: the tempo first, then the sections
\* (gaps against the detected tempo)
detectBeatDynamicCutoff(peaks, channelLength) ==
    IF Len(peaks) = 0 THEN Rejected("No se detectaron picos en el audio.")
    ELSE Bind(DetectedTempo(peaks),
         LAMBDA tempo :
             IF Falsy(tempo) THEN Rejected("No se pudo determinar el tempo.")
             ELSE Resolved(tempo, peaks,
                           detectHarmonySections(peaks, channelLength, tempo)))

LONG_GAP_THRESHOLD == 4
\* detectBeat with the long gaps: reading similarPeaks[0] of an empty list throws
detectBeatLongGaps(peaks, channelLength) ==
    IF Len(peaks) = 0 THEN Rejected("TypeError")
    ELSE Bind2(
           (IF RatLt(Rat(LONG_GAP_THRESHOLD), SecondsOf(peaks[1]))
            THEN <<Section(0, peaks[1])>> ELSE <<>>)
           \o GapSections(peaks, Rat(LONG_GAP_THRESHOLD))
           \o (IF RatLt(Rat(LONG_GAP_THRESHOLD),
                        RatSub(SecondsOf(channelLength), SecondsOf(peaks[Len(peaks)])))
               THEN <<Section(peaks[Len(peaks)], channelLength)>> ELSE <<>>),
           DetectedTempoLongGaps(peaks),
         LAMBDA longGapSections, tempo :
             IF Falsy(tempo) THEN Rejected("No se pudo determinar el tempo.")
             ELSE Resolved(tempo, peaks, longGapSections))

\* the lists of at most n peaks in the audio
RECURSIVE PeakLists(_)
PeakLists(n) ==
    IF n = 0 THEN {<<>>}
    ELSE Bind(PeakLists(n - 1),
         LAMBDA shorter :
             shorter \cup
             UNION {{Append(ps, x) : x \in {y \in 0..(ChannelLength - 1) :
                                               Len(ps) = 0 \/ y > ps[Len(ps)]}} :
                    ps \in shorter})

InitBeat ==
    /\ state = getInitialState("suspended")
    /\ sources = {}
    /\ tl = [d \in Decks |-> NoTl]
    /\ needsRender = TRUE
    /\ clock = 0
    /\ loads = <<>>
    /\ sincePlay = NoPlay
    /\ other = [s |-> getInitialState("suspended"), src |-> {}, call |-> NoCall]
    /\ beat \in {[pc |-> "peaks", peaks |-> ps, result |-> [ok |-> FALSE]] :
                    ps \in PeakLists(MaxPeaks)}
    /\ registry = NoDecks
    /\ render = NoRender
    /\ scan = NoScan
    /\ tween = NoTween
    /\ pending = NotFollowed

Analysed(name, result) ==
    /\ beat.pc = "peaks"
    /\ beat' = [beat EXCEPT !.pc = name, !.result = result]
    /\ UNCHANGED <<state, sources, tl, needsRender, clock, loads, sincePlay, other,
                   registry, render, scan, tween, pending>>

DetectBeat == Analysed("detectBeat", detectBeat(beat.peaks, ChannelLength))
DetectBeatDynamicCutoff ==
    Analysed("detectBeatDynamicCutoff", detectBeatDynamicCutoff(beat.peaks, ChannelLength))
DetectBeatLongGaps ==
    Analysed("detectBeatLongGaps", detectBeatLongGaps(beat.peaks, ChannelLength))

NextBeat ==
    \/ DetectBeat
    \/ DetectBeatDynamicCutoff
    \/ DetectBeatLongGaps

SpecBeat == InitBeat /\ [][NextBeat]_vars

-----------------------------------------------------------------------------
(* The deck registry. MixerDecksProvider keeps the decks of the page in a   *)
(* Map by deck id; a deck is constructed by addDeck and by nothing else.    *)
(* registry.made lists every deck constructed so far, in order, as the id   *)
(* it was constructed with and its MixerDeck.state; registry.decks[id] is   *)
(* the index in that list of the deck the Map holds under id.               *)

MaxInstances == 4

Undefined == 0

has(reg, id) == reg.decks[id] # Undefined

\* new MixerDeck(id, ...)
NewMixerDeck(id) == [deckId |-> id, s |-> getInitialState("suspended")]

\* addDeck of the provider that constructs each deck with a container id
addDeckUnguarded(reg, id) ==
    [reg EXCEPT !.made = Append(reg.made, NewMixerDeck(id)),
                !.decks = [reg.decks EXCEPT ![id] = Len(reg.made) + 1]]

addDeck(reg, id) ==
    IF ~has(reg, id)
    THEN [reg EXCEPT !.made = Append(reg.made, NewMixerDeck(id)),
                     !.decks = [reg.decks EXCEPT ![id] = Len(reg.made) + 1]]
    ELSE reg

\* addDeck of the provider that hands the shared scene to each deck
addDeckInScene(reg, id) ==
    IF ~has(reg, id) /\ reg.scene THEN addDeck(reg, id) ELSE reg

getDeck(reg, id) == reg.decks[id]

removeDeck(reg, id, now) ==
    IF has(reg, id)
    THEN Bind(reg.decks[id], LAMBDA i :
         Bind(dispose(World(reg.made[i].s, {}, NoTl, FALSE), now).s, LAMBDA disposed :
            [reg EXCEPT !.made = [reg.made EXCEPT ![i] = [@ EXCEPT !.s = disposed]],
                        !.decks = [reg.decks EXCEPT ![id] = Undefined]]))
    ELSE reg

\* initScene, once scene.initialize() has resolved
initScene(reg) ==
    Bind([reg EXCEPT !.scene = TRUE], LAMBDA r1 :
    Bind(addDeckInScene(r1, "deck1"), LAMBDA r2 : addDeckInScene(r2, "deck2")))

\* the cleanup of the provider's effect
disposeScene(reg) == [reg EXCEPT !.scene = FALSE]

Registered(after) ==
    /\ registry' = after
    /\ UNCHANGED <<state, sources, tl, needsRender, clock, loads, sincePlay, other, beat,
                   render, scan, tween, pending>>

AddDeck(id) ==
    /\ Len(registry.made) < MaxInstances
    /\ Registered(addDeck(registry, id))

AddDeckInScene(id) ==
    /\ Len(registry.made) < MaxInstances
    /\ Registered(addDeckInScene(registry, id))

RemoveDeck(id) == Registered(removeDeck(registry, id, Now))

InitScene ==
    /\ ~registry.scene
    /\ Len(registry.made) + 2 <= MaxInstances
    /\ Registered(initScene(registry))

DisposeScene ==
    /\ registry.scene
    /\ Registered(disposeScene(registry))

NextRegistry ==
    \/ \E id \in Decks : AddDeck(id)
    \/ \E id \in Decks : AddDeckInScene(id)
    \/ \E id \in Decks : RemoveDeck(id)
    \/ InitScene
    \/ DisposeScene

SpecRegistry == Init /\ [][NextRegistry]_vars

-----------------------------------------------------------------------------
(* The colour effect. setColorFX writes the three parameters of the deck's  *)
(* band-pass filter; the filter exists while a source is connected.         *)

\* setColorFX without the three clamps
setColorFXUnclamped(w, frequency, resonance, mix, now) ==
    IF w.s.colorFXFilter # NoNode /\ w.s.audioContext # "null"
    THEN [w EXCEPT !.s = [w.s EXCEPT !.colorFXFilter =
            [@ EXCEPT !.frequency = frequency,
                      !.Q = resonance,
                      !.gain = IF mix = Zero THEN Rat(-100)
                               ELSE RatSub(RatMul(mix, Rat(40)), Rat(20))]]]
    ELSE w

setColorFX(w, frequency, resonance, mix, now) ==
    IF w.s.colorFXFilter # NoNode /\ w.s.audioContext # "null"
    THEN Bind(RatMax(Rat(20), RatMin(Rat(20000), frequency)), LAMBDA safeFreq :
         Bind(RatMax(Frac(1, 10), RatMin(Rat(25), resonance)), LAMBDA safeQ :
         Bind(RatMax(Zero, RatMin(One, mix)), LAMBDA safeMix :
         Bind(IF safeMix = Zero THEN Rat(-100)
              ELSE RatSub(RatMul(safeMix, Rat(40)), Rat(20)), LAMBDA gainInDB :
            [w EXCEPT !.s = [w.s EXCEPT !.colorFXFilter =
                [@ EXCEPT !.frequency = safeFreq, !.Q = safeQ, !.gain = gainInDB]]]))))
    ELSE w

\* what the caller passes: values below, at, inside, at and above each range
FXFrequencies == {Rat(-5), Rat(20), Rat(440), Rat(1000), Rat(20000), Rat(96000)}
FXResonances == {Zero, Frac(1, 10), One, Rat(4), Rat(25), Rat(40)}
FXMixes == {Frac(-1, 2), Zero, Frac(1, 4), Frac(1, 2), Frac(3, 4), One, Rat(3)}

SetColorFX(frequency, resonance, mix) ==
    /\ Commit(setColorFX(W, frequency, resonance, mix, Now))
    /\ sincePlay' = NoPlay
    /\ UNCHANGED <<clock, loads>>

NextColorFX ==
    \/ \E f \in Files : loads = <<>> /\ LoadAudio(f)
    \/ LoadStep
    \/ Play
    \/ Pause
    \/ \E frequency \in FXFrequencies, resonance \in FXResonances, mix \in FXMixes :
          SetColorFX(frequency, resonance, mix)

SpecColorFX == Init /\ [][NextColorFX]_vars

\* the equaliser. Each setter writes the gain of one filter of the chain
\* play() built, at once (setValueAtTime at the current time)
EQGains == {Rat(-12), Rat(6)}

\* setBassGain without its guard
setBassGainUnguarded(w, gain) ==
    [w EXCEPT !.s = [w.s EXCEPT !.bassFilter = [@ EXCEPT !.gain = gain]]]

setBassGain(w, gain) ==
    IF w.s.bassFilter # NoNode /\ w.s.audioContext # "null"
    THEN [w EXCEPT !.s = [w.s EXCEPT !.bassFilter = [@ EXCEPT !.gain = gain]]]
    ELSE w

setMidGain(w, gain) ==
    IF w.s.midFilter # NoNode /\ w.s.audioContext # "null"
    THEN [w EXCEPT !.s = [w.s EXCEPT !.midFilter = [@ EXCEPT !.gain = gain]]]
    ELSE w

setTrebleGain(w, gain) ==
    IF w.s.trebleFilter # NoNode /\ w.s.audioContext # "null"
    THEN [w EXCEPT !.s = [w.s EXCEPT !.trebleFilter = [@ EXCEPT !.gain = gain]]]
    ELSE w

SetGain(after) ==
    /\ Commit(after)
    /\ sincePlay' = NoPlay
    /\ UNCHANGED <<clock, loads>>

SetBassGain == \E gain \in EQGains : SetGain(setBassGain(W, gain))
SetMidGain == \E gain \in EQGains : SetGain(setMidGain(W, gain))
SetTrebleGain == \E gain \in EQGains : SetGain(setTrebleGain(W, gain))

\* a deck whose equaliser and colour effect are set while it plays, pauses,
\* seeks and changes tempo
NextEQ ==
    \/ \E f \in Files : loads = <<>> /\ state.status = "empty" /\ LoadAudio(f)
    \/ LoadStep
    \/ Play
    \/ Pause
    \/ \E f \in SeekArgs : Seek(f)
    \/ \E bpm \in TempoArgs : ChangeTempo(bpm)
    \/ SetBassGain
    \/ SetMidGain
    \/ SetTrebleGain
    \/ SetColorFX(Rat(440), Rat(4), Frac(3, 4))

SpecEQ == Init /\ [][NextEQ]_vars

-----------------------------------------------------------------------------
(* The render loop (TimelineGenerator.startRenderLoop). animate runs once   *)
(* per display frame, between the handlers of the page: it moves the       *)
(* timeline of every playing deck, eases each deck's scale towards its     *)
(* target and draws when something asked for it.                           *)

MaxEased == 2

scaleLerpFactor == Frac(1, 10)
SnapDistance == Frac(1, 1000)

\* an interpolation that stays where it is
lerpStay(x, y, t) == x

\* THREE.MathUtils.lerp
lerp(x, y, t) == RatAdd(RatMul(RatSub(One, t), x), RatMul(t, y))

RatAbs(a) == IF RatLt(a, Zero) THEN RatSub(Zero, a) ELSE a

\* the scale animation of one deck, for one frame
animateScale(t) ==
    IF t.currentTimelineScaleX # t.targetTimelineScaleX
    THEN Bind(lerp(t.currentTimelineScaleX, t.targetTimelineScaleX, scaleLerpFactor),
         LAMBDA eased :
            [t EXCEPT !.currentTimelineScaleX =
                IF RatLt(RatAbs(RatSub(eased, t.targetTimelineScaleX)), SnapDistance)
                THEN t.targetTimelineScaleX
                ELSE eased])
    ELSE t

\* the body of animate's loop for the deck kept under deckId
animateDeck(a, deckId, now) ==
    IF StateOf(a.tl, deckId).gen = 0 THEN a
    ELSE
      Bind(StateOf(a.tl, deckId), LAMBDA t0 :
      Bind(IF t0.isPlaying
           THEN [tl |-> updateTimelinePosition(
                            World(getInitialState("running"), {}, t0, a.nr), now).tl,
                 nr |-> TRUE]
           ELSE [tl |-> t0, nr |-> a.nr], LAMBDA moved :
      Bind(animateScale(moved.tl), LAMBDA t2 :
      Bind(moved.nr \/ t2 # moved.tl, LAMBDA nr2 :
         [tl |-> WithStateOf(a.tl, deckId, [t2 EXCEPT !.needsRender = FALSE]),
          nr |-> nr2 \/ t2.needsRender]))))

\* what a draw call would put on the screen: per deck the position.x and
\* scale.x of its timeline group, and the camera
Visual(tls, r) ==
    [decks |-> [d \in Decks |-> IF tls[d].gen = 0 THEN <<>>
                                ELSE <<tls[d].x, tls[d].currentTimelineScaleX>>],
     camera |-> r.camera, aspect |-> r.aspect]

\* a scale is on its way to its target
Easing(tls) ==
    \E d \in Decks : tls[d].currentTimelineScaleX # tls[d].targetTimelineScaleX

\* an animate that draws on every tick
animateEveryTick(tls, nr, r, now) ==
    Bind(animateDeck([tl |-> tls, nr |-> nr], "deck1", now), LAMBDA a1 :
    Bind(animateDeck(a1, "deck2", now), LAMBDA a2 :
       [tl |-> a2.tl,
        nr |-> FALSE,
        r |-> [r EXCEPT !.drew = TRUE,
                        !.eased = IF @ < MaxEased /\ Easing(a2.tl) THEN @ + 1 ELSE @]]))

\* one call of animate: the decks in order, then the draw
animate(tls, nr, r, now) ==
    Bind(animateDeck([tl |-> tls, nr |-> nr], "deck1", now), LAMBDA a1 :
    Bind(animateDeck(a1, "deck2", now), LAMBDA a2 :
       [tl |-> a2.tl,
        nr |-> FALSE,
        r |-> [r EXCEPT !.drew = a2.nr,
                        !.eased = IF @ < MaxEased /\ Easing(a2.tl) THEN @ + 1 ELSE @]]))

\* the loop runs from initialize() of a generator until its dispose()
isRendering == \E d \in Decks : tl[d].gen # 0

RenderTick ==
    /\ UNCHANGED <<state, sources, clock, loads, sincePlay, other, beat, registry, scan, tween, pending>>
    /\ isRendering
    /\ \E a \in {animate(tl, needsRender, render, Now)} :
          /\ tl' = a.tl
          /\ needsRender' = a.nr
          /\ render' = a.r

\* one frame of the camera animation of cameraMatrix
CameraStep ==
    /\ isRendering
    /\ render' = [render EXCEPT !.camera = 1 - @]
    /\ needsRender' = TRUE
    /\ UNCHANGED <<state, sources, tl, clock, loads, sincePlay, other, beat, registry, scan, tween, pending>>

\* onWindowResize
Resize ==
    /\ isRendering
    /\ render' = [render EXCEPT !.aspect = 1 - @]
    /\ needsRender' = TRUE
    /\ UNCHANGED <<state, sources, tl, clock, loads, sincePlay, other, beat, registry, scan, tween, pending>>

NextRender ==
    \/ Tick
    \/ Deck1Step
    \/ (render.eased < MaxEased \/ ~Easing(tl)) /\ RenderTick
    \/ CameraStep
    \/ Resize

SpecRender == Init /\ [][NextRender]_vars

\* The scale animation on its own: a deck that was loaded, set to a rate,
\* played and paused, its scale somewhere near the target of that rate, and
\* from then on nothing but render ticks. The display calls animate again
\* for every frame while the loop runs, hence the fairness of RenderTick.
ScaleRates == {Frac(1, 2), One, Frac(3, 2)}
ScaleGaps == {Frac(k, 4000) : k \in -6..6}

Settled(f, rate) ==
    Bind(World(getInitialState("running"), {}, NoTl, TRUE), LAMBDA w0 :
    Bind(loadInitialized(loadDecoded(w0, f, 1), f, 1), LAMBDA w1 :
    Bind(changeTempo(w1, RatMul(rate, TrackTempo(f)), Zero), LAMBDA w2 :
    Bind(play(w2, Zero), LAMBDA w3 : pause(w3, Zero)))))

InitScale ==
    /\ \E f \in Files, rate \in ScaleRates, gap \in ScaleGaps :
          \E w \in {Settled(f, rate)} :
             /\ state = w.s
             /\ sources = w.src
             /\ tl = [d \in Decks |->
                        IF d = "deck1"
                        THEN [w.tl EXCEPT !.currentTimelineScaleX =
                                              RatAdd(w.tl.targetTimelineScaleX, gap)]
                        ELSE NoTl]
             /\ needsRender = w.nr
    /\ clock = 0
    /\ loads = <<>>
    /\ sincePlay = NoPlay
    /\ other = [s |-> getInitialState("suspended"), src |-> {}, call |-> NoCall]
    /\ beat = NoAnalysis
    /\ registry = NoDecks
    /\ render = NoRender
    /\ scan = NoScan
    /\ tween = NoTween
    /\ pending = NotFollowed

NextScale == RenderTick

SpecScale == InitScale /\ [][NextScale]_vars /\ WF_vars(RenderTick)

-----------------------------------------------------------------------------
(* The peak scans. The beat trackers look for peaks in the low-passed       *)
(* channel data: getPeaksAtThreshold takes every sample over a fixed        *)
(* threshold, findSimilarPeaks every local maximum near the loudest sample. *)
(* The channel data is sparse here: scan.loud holds the samples that are    *)
(* not silent, as <<index, amplitude>> with the amplitude in tenths of full *)
(* scale, and every other sample is 0. A scan steps over silent samples one *)
(* by one and takes none of them, so it is followed from one sample of      *)
(* scan.loud to the next.                                                   *)

MaxLoud == 3
windowSize == 50

\* audioBuffer.sampleRate: the rates an OfflineAudioContext can be made with
\* start at 3000 samples a second
ScanRates == {3000, 8000}

\* one second of audio
DataLength(sampleRate) == sampleRate

\* where the samples that matter to a scan lie: at the start of the data, at
\* both ends of a window, one minimum gap on, one skip on
DataPositions(sampleRate) ==
    {0, windowSize - 1, windowSize, sampleRate \div 10, sampleRate \div 10 + windowSize - 1,
     sampleRate \div 4, (3 * sampleRate) \div 10}

Amplitudes == {10, 9, 4, -10}

\* the channel data with at most n samples that are not silent
ChannelData(sampleRate, n) ==
    UNION {[ps -> Amplitudes] : ps \in {qs \in SUBSET DataPositions(sampleRate) :
                                           Cardinality(qs) \in 1..n}}

\* data[i], in tenths
Sample(data, i) == IF i \in DOMAIN data THEN data[i] ELSE 0

\* the first sample from i on that is not silent; the end of the data if none is
NextLoud(data, i, len) ==
    IF \E k \in DOMAIN data : k >= i
    THEN CHOOSE k \in DOMAIN data : k >= i /\ \A l \in DOMAIN data : l >= i => k <= l
    ELSE len

\* getPeaksAtThreshold from sample i on, peaks being those found before i;
\* threshold in tenths, skip the samples passed over after a peak
RECURSIVE PeaksAtThresholdFrom(_, _, _, _, _, _)
PeaksAtThresholdFrom(data, len, threshold, skip, i, peaks) ==
    IF i >= len THEN peaks
    ELSE IF Sample(data, i) > threshold
         THEN PeaksAtThresholdFrom(data, len, threshold, skip, i + skip, Append(peaks, i))
         ELSE PeaksAtThresholdFrom(data, len, threshold, skip,
                                   NextLoud(data, i + 1, len), peaks)

getPeaksAtThreshold(data, len, threshold, skip) ==
    PeaksAtThresholdFrom(data, len, threshold, skip, 0, <<>>)

\* the loudest sample: the beat tracker with the long gaps folds Math.max
\* over the samples from 0, the beat tracker of the deck takes their sizes
maxPeakSigned(data) ==
    Only({m \in {0} \cup {data[k] : k \in DOMAIN data} :
             \A k \in DOMAIN data : data[k] <= m /\ 0 <= m})
maxPeakAbs(data) ==
    Only({m \in {0} \cup {Abs(data[k]) : k \in DOMAIN data} :
             \A k \in DOMAIN data : Abs(data[k]) <= m})

\* the window search of findSimilarPeaks: the first sample of the window at
\* i whose size no sample of the window exceeds
localMaxIndex(data, len, i) ==
    Bind({k \in i..(i + windowSize - 1) : k < len /\ (k = i \/ k \in DOMAIN data)},
         LAMBDA window :
             CHOOSE k \in window :
                 /\ \A l \in window : Abs(Sample(data, l)) <= Abs(Sample(data, k))
                 /\ \A l \in window : l < k => Abs(Sample(data, l)) < Abs(Sample(data, k)))

\* a scan that moves on by one sample after a peak
AfterPeakNoGap(i, localMax, minGap) == i + 1

\* the scan of findSimilarPeaks moves on from the sample that started the
\* window, by minGap
AfterPeak(i, localMax, minGap) == i + minGap

\* findSimilarPeaks from sample i on; tolerance is 0.8
RECURSIVE SimilarPeaksFrom(_, _, _, _, _, _)
SimilarPeaksFrom(data, len, maxValue, minGap, i, peaks) ==
    IF i >= len THEN peaks
    ELSE IF 10 * Abs(Sample(data, i)) > 8 * maxValue
         THEN Bind(localMaxIndex(data, len, i),
              LAMBDA localMax :
                  SimilarPeaksFrom(data, len, maxValue, minGap,
                                   AfterPeak(i, localMax, minGap),
                                   Append(peaks, localMax)))
         ELSE SimilarPeaksFrom(data, len, maxValue, minGap,
                               NextLoud(data, i + 1, len), peaks)

\* the positions of the peaks findSimilarPeaks returns
findSimilarPeaks(data, len, maxValue, sampleRate) ==
    SimilarPeaksFrom(data, len, maxValue, sampleRate \div 10, 0, <<>>)

\* peak / sampleRate, and timeInSeconds of a similar peak
timeInSeconds(position, sampleRate) == Frac(position, sampleRate)

\* what detectBeat reports of the peaks once it has a tempo for them
Timing(peaks, sampleRate) ==
    [firstBeatOffset |-> IF Len(peaks) = 0 THEN NoNum
                         ELSE timeInSeconds(peaks[1], sampleRate),
     beats |-> [k \in DOMAIN peaks |-> timeInSeconds(peaks[k], sampleRate)]]

InitScan ==
    /\ state = getInitialState("suspended")
    /\ sources = {}
    /\ tl = [d \in Decks |-> NoTl]
    /\ needsRender = TRUE
    /\ clock = 0
    /\ loads = <<>>
    /\ sincePlay = NoPlay
    /\ other = [s |-> getInitialState("suspended"), src |-> {}, call |-> NoCall]
    /\ beat = NoAnalysis
    /\ registry = NoDecks
    /\ render = NoRender
    /\ tween = NoTween
    /\ pending = NotFollowed
    /\ \E r \in ScanRates :
           scan \in {[pc |-> "data", sampleRate |-> r, loud |-> d, peaks |-> <<>>] :
                        d \in ChannelData(r, MaxLoud)}

Scanned(name, peaks) ==
    /\ scan.pc = "data"
    /\ scan' = [scan EXCEPT !.pc = name, !.peaks = peaks]
    /\ UNCHANGED <<state, sources, tl, needsRender, clock, loads, sincePlay, other, beat,
                   registry, render, tween, pending>>

\* the beat tracker of the deck: threshold 0.5, a skip of 0.3 s
ScanThreshold ==
    Scanned("getPeaksAtThreshold",
            getPeaksAtThreshold(scan.loud, DataLength(scan.sampleRate), 5,
                                (3 * scan.sampleRate) \div 10))

\* the beat tracker with the dynamic cutoff: threshold 0.3, a skip of 0.25 s
ScanThresholdDynamicCutoff ==
    Scanned("getPeaksAtThresholdDynamicCutoff",
            getPeaksAtThreshold(scan.loud, DataLength(scan.sampleRate), 3,
                                scan.sampleRate \div 4))

\* findSimilarPeaks as the beat tracker of the deck calls it
ScanSimilar ==
    Scanned("findSimilarPeaks",
            findSimilarPeaks(scan.loud, DataLength(scan.sampleRate),
                             maxPeakAbs(scan.loud), scan.sampleRate))

\* findSimilarPeaks as the beat tracker with the long gaps calls it
ScanSimilarLongGaps ==
    Scanned("findSimilarPeaksLongGaps",
            findSimilarPeaks(scan.loud, DataLength(scan.sampleRate),
                             maxPeakSigned(scan.loud), scan.sampleRate))

NextScan == ScanThreshold \/ ScanThresholdDynamicCutoff \/ ScanSimilar \/ ScanSimilarLongGaps

SpecScan == InitScan /\ [][NextScan]_vars

-----------------------------------------------------------------------------
(* Camera transitions (TimelineGenerator.cameraMatrix). A call reads the    *)
(* camera's position, then animates from there to the target in callbacks   *)
(* of requestAnimationFrame, one per display frame; the callbacks of a      *)
(* frame run in the order they were requested.                              *)

MaxCameraCalls == 3
\* the frames a transition takes after its first: frames are duration /
\* TweenFrames milliseconds apart
TweenFrames == 2

\* ISOMETRIC_POSITIONS.side, by value
SidePositions == <<4, 10, 40, 90>>
\* the values a caller passes: those of the table, and one beyond it
CameraValues == 0..4

\* Math.min(elapsed / duration, 1) in the k-th callback of a transition after
\* the one that set startTime
progressAt(k) == RatMin(Frac(k, TweenFrames), One)

\* Vector3.lerpVectors(startPosition, targetPosition, progress)
lerpVectors(startPosition, targetPosition, progress) ==
    RatAdd(startPosition, RatMul(RatSub(targetPosition, startPosition), progress))

\* cameraMatrix up to its first requestAnimationFrame
cameraMatrix(c, value) ==
    IF value + 1 \notin DOMAIN SidePositions
    THEN [c EXCEPT !.calls = @ + 1]
    ELSE [c EXCEPT !.calls = @ + 1,
                   !.active = Append(@, [startPosition |-> c.position,
                                         targetPosition |-> Rat(SidePositions[value + 1]),
                                         frames |-> 0])]

\* the callbacks of one frame, from the k-th transition under way on: each
\* writes the position and asks for the next frame unless it has arrived
RECURSIVE animateCamera(_, _)
animateCamera(c, k) ==
    IF k > Len(c.active) THEN [c EXCEPT !.active = SelectSeq(@, LAMBDA t : t.frames >= 0)]
    ELSE Bind(progressAt(c.active[k].frames),
         LAMBDA progress :
             animateCamera(
                 [c EXCEPT !.position = lerpVectors(c.active[k].startPosition,
                                                    c.active[k].targetPosition, progress),
                           !.wrote = @ + 1,
                           !.active[k].frames = IF RatLt(progress, One) THEN @ + 1 ELSE -1],
                 k + 1))

CameraMatrix ==
    /\ tween.calls < MaxCameraCalls
    /\ \E value \in CameraValues : tween' = cameraMatrix(tween, value)
    /\ UNCHANGED <<state, sources, tl, needsRender, clock, loads, sincePlay, other, beat,
                   registry, render, scan, pending>>

\* one display frame: every transition under way runs its callback, and each
\* sets needsRender
AnimationFrame ==
    /\ tween.active # <<>>
    /\ tween' = animateCamera([tween EXCEPT !.wrote = 0], 1)
    /\ needsRender' = TRUE
    /\ UNCHANGED <<state, sources, tl, clock, loads, sincePlay, other, beat,
                   registry, render, scan, pending>>

InitCamera ==
    /\ state = getInitialState("suspended")
    /\ sources = {}
    /\ tl = [d \in Decks |-> NoTl]
    /\ needsRender \in BOOLEAN
    /\ clock = 0
    /\ loads = <<>>
    /\ sincePlay = NoPlay
    /\ other = [s |-> getInitialState("suspended"), src |-> {}, call |-> NoCall]
    /\ beat = NoAnalysis
    /\ registry = NoDecks
    /\ render = NoRender
    /\ scan = NoScan
    /\ tween = NoTween
    /\ pending = NotFollowed

NextCamera == CameraMatrix \/ AnimationFrame

SpecCamera == InitCamera /\ [][NextCamera]_vars

-----------------------------------------------------------------------------
(* Properties of the deck transport *)

\* C1: at most one audio source node is started and not stopped at any time,
\* and play() on a deck that is playing creates no source and changes nothing.
C1_OneLiveSource ==
    /\ Cardinality(sources) <= 1
    /\ state.isPlaying => play(W, Now) = W
\* a deck that plays through its one source, after the clock has advanced
C1_Playing ==
    /\ state.isPlaying
    /\ Cardinality(sources) = 1
    /\ RatLt(state.startTime, Now)

\* the position the clock puts a deck at, t1 - t0 after play() from p at rate r
C2_Position ==
    Bind(RatAdd(sincePlay.p, RatMul(RatSub(Now, sincePlay.t0), sincePlay.r)),
         LAMBDA x : IF RatLt(state.duration, x) THEN state.duration ELSE x)

\* C2 as stated: when pause() is the next command after a successful play(),
\* pausedAt = min(p + (t1 - t0) * r, duration) and the status is 'paused'.
C2_PauseAfterPlay ==
    [][(Pause /\ sincePlay.set) =>
          /\ state'.pausedAt = C2_Position
          /\ state'.status = "paused"]_vars

\* C2 amended: when pause() is the next command after a successful play(),
\* pausedAt = min(p + (t1 - t0) * r, duration); the status is 'paused' unless
\* the source played to the end of the track before pause(), and then the
\* status is 'loaded'.
C2_PauseAfterPlayOrEnd ==
    [][(Pause /\ sincePlay.set) =>
          /\ state'.pausedAt = C2_Position
          /\ state'.status = IF sincePlay.ended THEN "loaded" ELSE "paused"]_vars
\* pause() has followed a play() that ran at a changed rate, short of the end
C2_Paused ==
    /\ sincePlay.pauses = 1
    /\ ~sincePlay.ended
    /\ state.status = "paused"
    /\ state.playbackRate # One
    /\ RatLt(Zero, state.pausedAt)
    /\ RatLt(state.pausedAt, state.duration)
\* pause() has followed a play() whose source had played to the end
C2_PausedAfterEnd ==
    /\ sincePlay.pauses = 1
    /\ sincePlay.ended
    /\ state.status = "loaded"
    /\ state.pausedAt = state.duration

\* C3: pause() on a deck that is not playing changes nothing of the deck, and
\* a deck is not playing after pause(): a second pause() leaves what the
\* first left, whatever the clock reads.
C3_PauseIdempotent ==
    [][Pause =>
          /\ ~state'.isPlaying
          /\ ~state.isPlaying =>
                /\ state' = state
                /\ sources' = sources
                /\ tl' = tl
                /\ needsRender' = needsRender
          /\ \A t \in clock..MaxClock : pause(World(state', sources', StateOf(tl', "deck1"), needsRender'),
                                               Rat(t)).s = state']_vars
\* two pause() calls in a row after a play(), the clock having advanced
C3_PausedTwice ==
    /\ sincePlay.pauses = 2
    /\ state.status = "paused"
    /\ RatLt(state.startTime, Now)

\* the fractions seek() is probed with
SeekProbes == {Frac(-1, 2), Zero, Frac(1, 4), Frac(1, 2), One, Frac(3, 2), Rat(-3), Rat(7)}

\* C4: on a loaded deck that is not playing, seek(f) returns f * duration for
\* f in [0, 1], 0 for f < 0 and duration for f > 1, and currentTime read
\* right after equals the value returned.
C4_SeekRoundTrip ==
    (CanSeek(state) /\ ~state.isPlaying) =>
        \A f \in SeekProbes :
            \E r \in {seek(W, f, Now)} :
                /\ r.ret = IF RatLt(f, Zero) THEN Zero
                           ELSE IF RatLt(One, f) THEN state.duration
                           ELSE RatMul(f, state.duration)
                /\ currentTime(r.w.s, Now) = r.ret
                /\ ~r.w.s.isPlaying
\* seek(0.5) has put a loaded deck in the middle of a track
C4_SoughtHalf ==
    /\ state.status = "loaded"
    /\ ~state.isPlaying
    /\ RatLt(Zero, state.duration)
    /\ state.pausedAt = RatMul(Frac(1, 2), state.duration)
    /\ currentTime(state, Now) = state.pausedAt

\* the clock readings possible while the deck stays as it is
C5_Reads == {t \in 0..(MaxClock + 1) : RatLe(state.startTime, Rat(t)) /\ clock <= t}

\* C5: while a deck stays playing, currentTime read at t1 <= t2 satisfies
\* currentTime(t1) <= currentTime(t2) <= duration.
C5_CurrentTimeMonotone ==
    state.isPlaying =>
        \A t1, t2 \in C5_Reads :
            t1 <= t2 =>
                /\ RatLe(currentTime(state, Rat(t1)), currentTime(state, Rat(t2)))
                /\ RatLe(currentTime(state, Rat(t2)), state.duration)
\* a playing deck whose position has advanced with the clock
C5_Advanced ==
    /\ state.isPlaying
    /\ RatLt(state.pausedAt, currentTime(state, Now))

\* the tempi changeTempo() is probed with
TempoProbes == {Rat(1), Rat(29), Rat(30), Rat(31), Rat(128), Rat(140),
                Rat(300), Rat(301), Rat(1000), Rat(-5), Frac(257, 2)}

\* C6: after changeTempo(bpm) on a deck whose initial tempo is known, the
\* tempo is bpm clamped into [30, 300].
C6_TempoClamped ==
    ~Falsy(state.initialTempo) =>
        \A bpm \in TempoProbes :
            changeTempo(W, bpm, Now).s.tempo =
                IF RatLt(bpm, Rat(30)) THEN Rat(30)
                ELSE IF RatLt(Rat(300), bpm) THEN Rat(300)
                ELSE bpm
\* changeTempo(1000) has left the tempo of a loaded track at 300
C6_AtMaxTempo ==
    /\ ~Falsy(state.initialTempo)
    /\ state.tempo = Rat(300)
    /\ state.initialTempo # Rat(300)

C9_LoadFailure ==
    \E i \in DOMAIN loads :
        /\ loads[i].pc \in {"fetch", "arrayBuffer", "decode", "initialize"}
        /\ LoadFails(i)

\* C9 as stated: when loadAudio fails on a fetch, decode or timeline error,
\* the deck ends in status 'error' with an error message, and the buffer,
\* tempo, timeline and audio nodes are cleared.
C9_FailedLoadIsError ==
    [][C9_LoadFailure =>
          /\ state'.status = "error"
          /\ state'.error # ""
          /\ state'.buffer = NoBuffer
          /\ Falsy(state'.tempo)
          /\ state'.timelineGenerator = 0
          /\ state'.timelineControls = 0
          /\ state'.source = 0
          /\ sources' = {}]_vars

\* C10: whenever no loadAudio call is in flight, the status is not 'loading':
\* a call that has settled left it at 'loaded', 'error' or 'empty'.
C10_NoStuckLoading ==
    loads = <<>> => state.status \in {"empty", "loaded", "playing", "paused", "error"}
\* a loadAudio call has failed and left the status 'error'
C10_LoadSettledInError ==
    /\ loads = <<>>
    /\ state.status = "error"
    /\ state.error = "Failed to resume AudioContext."

-----------------------------------------------------------------------------
(* Overlapping loads *)

\* the file of the most recently requested of the overlapping calls, seen from
\* the call that is the last in flight
C11_Second == IF loads[1].later # "" THEN loads[1].later ELSE loads[1].file

\* the last of several overlapping loadAudio calls settles, the most recently
\* requested one having succeeded
C11_BothSettled ==
    /\ Len(loads) = 1
    /\ loads' = <<>>
    /\ LoadStep
    /\ \/ loads[1].later # "" /\ loads[1].laterDone = "loaded"
       \/ loads[1].later = "" /\ loads[1].overlapped /\ state'.status = "loaded"

\* C11 as stated: when a second loadAudio starts while the first is in flight,
\* then once both have settled the buffer, duration, tempo, initial tempo,
\* timeline controls and currentFileName are those of the second call,
\* whatever order the awaits complete in.
C11_LastCallWins ==
    [][C11_BothSettled =>
          /\ state'.buffer = [file |-> C11_Second, duration |-> TrackDuration(C11_Second)]
          /\ state'.duration = TrackDuration(C11_Second)
          /\ state'.tempo = TrackTempo(C11_Second)
          /\ state'.initialTempo = TrackTempo(C11_Second)
          /\ state'.currentFileName = C11_Second
          /\ state'.timelineControls # 0
          /\ StateOf(tl', "deck1").gen = state'.timelineControls
          /\ StateOf(tl', "deck1").trackDuration = TrackDuration(C11_Second)]_vars

-----------------------------------------------------------------------------
(* Commands issued where they are not valid *)

\* C12: play() in status empty, loading, error or playing, seek() in status
\* empty or loading or without a buffer, changeTempo() without an initial
\* tempo and adjustBeat() on a deck that is not playing change nothing of the
\* deck (state, sources and timeline), and seek() returns undefined.
C12_InvalidCommandsAreNoOps ==
    /\ state.status \in {"empty", "loading", "error", "playing"} =>
           play(W, Now) = W
    /\ (state.status \in {"empty", "loading"} \/ state.buffer = NoBuffer) =>
           \A f \in SeekArgs : seek(W, f, Now) = [w |-> W, ret |-> NoNum]
    /\ Falsy(state.initialTempo) =>
           \A bpm \in TempoArgs : changeTempo(W, bpm, Now) = W
    /\ ~state.isPlaying =>
           \A direction \in Directions : adjustBeat(W, direction, Now) = W
\* a deck in status 'error' without a buffer, an initial tempo or a source
C12_NothingValid ==
    /\ state.status = "error"
    /\ state.buffer = NoBuffer
    /\ Falsy(state.initialTempo)
    /\ ~state.isPlaying
    /\ RatLt(Zero, Now)

\* the status stays 'error' under every transport command issued on w
C13_StaysInError(w) ==
    /\ play(w, Now).s.status = "error"
    /\ pause(w, Now).s.status = "error"
    /\ \A f \in SeekArgs : seek(w, f, Now).w.s.status = "error"
    /\ \A bpm \in TempoArgs : changeTempo(w, bpm, Now).s.status = "error"
    /\ \A direction \in Directions : adjustBeat(w, direction, Now).s.status = "error"

\* C13: in status 'error' (as a failed load leaves it, and as the catch block
\* of play() would leave a deck that can play) no play, pause, seek,
\* changeTempo or adjustBeat changes the status; no source is live to end and
\* no load is in flight to settle, so the status leaves 'error' only through
\* loadAudio, reset or dispose.
C13_ErrorIsTerminal ==
    /\ state.status = "error" =>
           /\ C13_StaysInError(W)
           /\ sources = {}
           /\ loads = <<>>
    /\ (CanPlay(state) /\ HasPlayParts(state)) =>
           \E w \in {playCatch(W)} : C13_StaysInError(w)
\* a deck left in status 'error' by a load on a disposed deck
C13_InError ==
    /\ state.status = "error"
    /\ state.error = "AudioContext not available."
    /\ state.audioContext = "null"

-----------------------------------------------------------------------------
(* What play, seek, changeTempo, adjustBeat and reset do *)

\* a successful play(): the deck was not playing and is playing afterwards
C14_PlaySucceeds == Play /\ ~state.isPlaying /\ state'.isPlaying

\* C14 as stated: every successful play() starts the new source at a buffer
\* offset equal to pausedAt and with the rate playbackRate, pausedAt =
\* duration included.
C14_StartsAtPausedAt ==
    [][C14_PlaySucceeds =>
          \E x \in sources' :
              /\ x.id = state'.source
              /\ x.offset = state.pausedAt
              /\ x.rate = state.playbackRate]_vars

\* f * duration clamped into [0, duration], by cases
C15_Target(f) ==
    IF RatLt(f, Zero) THEN Zero
    ELSE IF RatLt(One, f) THEN state.duration
    ELSE RatMul(f, state.duration)

\* C15: seek(f) on a playing deck ends with the deck playing, pausedAt =
\* clamp(f * duration, 0, duration), startTime = the audio clock, the old
\* source stopped and exactly one source running, started now, and returns
\* that pausedAt; seek on a deck that is not playing leaves status and
\* isPlaying as they were.
C15_SeekRestarts ==
    \A f \in SeekProbes :
        \E r \in {seek(W, f, Now)} :
            IF state.isPlaying
            THEN /\ r.w.s.isPlaying
                 /\ r.w.s.status = "playing"
                 /\ r.w.s.pausedAt = C15_Target(f)
                 /\ r.ret = r.w.s.pausedAt
                 /\ r.w.s.startTime = Now
                 /\ pause(W, Now).src = {}
                 /\ Cardinality(r.w.src) = 1
                 /\ \A x \in r.w.src : /\ x.id = r.w.s.source
                                       /\ x.startAt = Now
                                       /\ x.rate = state.playbackRate
            ELSE /\ r.w.s.status = state.status
                 /\ r.w.s.isPlaying = state.isPlaying
                 /\ r.w.src = sources
\* a deck playing from the middle of the one-second track, restarted at the
\* present clock reading by a command other than play()
C15_SoughtWhilePlaying ==
    /\ state.isPlaying
    /\ state.duration = One
    /\ state.pausedAt = Frac(1, 2)
    /\ state.startTime = Now
    /\ RatLt(Zero, Now)
    /\ ~sincePlay.set
    /\ \A x \in sources : x.ramp = NoRamp

\* bpm clamped into [30, 300], by cases
C16_Tempo(bpm) ==
    IF RatLt(bpm, Rat(30)) THEN Rat(30)
    ELSE IF RatLt(Rat(300), bpm) THEN Rat(300)
    ELSE bpm

\* C16: changeTempo(bpm) does not move the position: currentTime is the same
\* right before and right after; a deck that was playing plays afterwards
\* through one source at the new rate; a deck that was not playing keeps its
\* status, pausedAt, startTime and source, and its next play() uses the new
\* rate.
C16_TempoKeepsPosition ==
    \A bpm \in TempoProbes :
        \E a \in {changeTempo(W, bpm, Now)} :
            /\ currentTime(a.s, Now) = currentTime(state, Now)
            /\ CanChangeTempo(state) =>
                   a.s.playbackRate = RatDiv(C16_Tempo(bpm), state.initialTempo)
            /\ IF state.isPlaying
               THEN /\ a.s.isPlaying
                    /\ a.s.status = "playing"
                    /\ Cardinality(a.src) = 1
                    /\ \A x \in a.src : x.id = a.s.source /\ x.rate = a.s.playbackRate
               ELSE /\ a.s.status = state.status
                    /\ ~a.s.isPlaying
                    /\ a.s.pausedAt = state.pausedAt
                    /\ a.s.startTime = state.startTime
                    /\ a.s.source = state.source
                    /\ a.src = sources
                    /\ (CanPlay(a.s) /\ HasPlayParts(a.s)) =>
                           \A x \in play(a, Now).src : x.rate = a.s.playbackRate
\* a deck whose tempo was changed while it played, past the start of the track
C16_RetimedWhilePlaying ==
    /\ state.isPlaying
    /\ state.playbackRate = Frac(35, 32)
    /\ RatLt(Zero, state.pausedAt)
    /\ RatLt(state.pausedAt, state.duration)
    /\ state.startTime = Now
    /\ ~sincePlay.set

\* a source without its rate automation
C17_Unramped(x) == [x EXCEPT !.ramp = NoRamp]

\* C17: adjustBeat on a playing deck changes no field of the deck state; it
\* schedules on the live source a ramp to 1.05 or 0.95 of playbackRate that
\* returns to playbackRate, and sets a visual offset that the timeline
\* consumes at once, its transport fields staying as they were.
C17_NudgeIsTransient ==
    state.isPlaying =>
        \A direction \in Directions :
            \E a \in {adjustBeat(W, direction, Now)} :
                /\ a.s = state
                /\ {C17_Unramped(x) : x \in a.src} = {C17_Unramped(x) : x \in sources}
                /\ \A x \in a.src :
                       x.id = state.source =>
                           /\ x.ramp.back = state.playbackRate
                           /\ x.ramp.peak # state.playbackRate
                           /\ x.rate = state.playbackRate
                /\ a.tl.offset = Zero
                /\ a.tl.pausedAt = StateOf(tl, "deck1").pausedAt
                /\ a.tl.startTime = StateOf(tl, "deck1").startTime
                /\ a.tl.playbackRate = StateOf(tl, "deck1").playbackRate
                /\ a.tl.isPlaying = StateOf(tl, "deck1").isPlaying
\* a playing deck whose source carries a nudge
C17_Nudged ==
    /\ state.isPlaying
    /\ \E x \in sources : x.id = state.source /\ x.ramp # NoRamp

\* what C18 lists of a deck after reset()
C18_Cleared(s) ==
    /\ s.status = "empty"
    /\ ~s.isPlaying
    /\ s.source = 0
    /\ s.gainNode = NoNode
    /\ s.bassFilter = NoNode
    /\ s.midFilter = NoNode
    /\ s.trebleFilter = NoNode
    /\ s.colorFXFilter = NoNode
    /\ s.buffer = NoBuffer
    /\ s.tempo = NoNum
    /\ s.initialTempo = NoNum
    /\ s.timelineGenerator = 0
    /\ s.timelineControls = 0
    /\ s.cameraControls = 0
    /\ s.timelineObject = 0
    /\ s.pausedAt = Zero
    /\ s.playbackRate = One

\* C18: reset() and dispose() in any status leave status 'empty', isPlaying
\* false, no source, gain or filter node, no buffer, tempo or initial tempo,
\* no timeline reference, pausedAt 0 and playbackRate 1, and no source
\* running.
C18_ResetClears ==
    /\ \E r \in {reset(W, Now)} : C18_Cleared(r.s) /\ r.src = {}
    /\ \E r \in {dispose(W, Now)} : C18_Cleared(r.s) /\ r.src = {}
\* a deck disposed after the clock has advanced
C18_Disposed ==
    /\ state.status = "empty"
    /\ state.audioContext = "null"
    /\ sources = {}
    /\ RatLt(Zero, Now)

-----------------------------------------------------------------------------
(* Two decks *)

\* C19: a play, pause, seek, changeTempo, adjustBeat or load step on one deck
\* leaves the other deck's transport state (its MixerDeck state and its live
\* sources) and the other deck's timeline state (pausedAt, startTime,
\* playbackRate, isPlaying, offset, current and target scale, with the rest
\* of its entry) unchanged.
C19_DecksIndependent ==
    [][/\ \/ /\ other'.s = other.s
             /\ other'.src = other.src
             /\ StateOf(tl', "deck2") = StateOf(tl, "deck2")
          \/ ~Deck1Step
       /\ \/ /\ state' = state
             /\ sources' = sources
             /\ StateOf(tl', "deck1") = StateOf(tl, "deck1")
          \/ ~Deck2Step]_vars
\* both decks play, at different rates, and both timelines run
C19_BothPlaying ==
    /\ state.isPlaying
    /\ other.s.isPlaying
    /\ StateOf(tl, "deck1").isPlaying
    /\ StateOf(tl, "deck2").isPlaying
    /\ state.playbackRate # other.s.playbackRate
    /\ StateOf(tl, "deck1").playbackRate # StateOf(tl, "deck2").playbackRate

-----------------------------------------------------------------------------
(* Beat detection *)

\* C20: whenever detectBeat succeeds on a peak list, the harmonySections it
\* returns are ordered by start, each section ends no later than the next
\* one starts, and every section lasts at least 0.5 s.
C20_SectionsOrderedAndLong ==
    beat.result.ok =>
        \E h \in {beat.result.harmonySections} :
            \A i \in DOMAIN h :
                /\ RatLe(Frac(1, 2), h[i].duration)
                /\ i > 1 => /\ RatLe(h[i - 1].start, h[i].start)
                            /\ RatLe(h[i - 1].end, h[i].start)
\* detectBeat succeeded, dropped a short opening section and returned a gap
\* section followed by the closing section
C20_GapThenClosing ==
    /\ beat.pc = "detectBeat"
    /\ beat.result.ok
    /\ beat.peaks[1] = 1
    /\ Len(beat.result.harmonySections) = 2
    /\ beat.result.harmonySections[2].end = SecondsOf(ChannelLength)

\* C21: every result detectBeat resolves with has tempo > 0 and
\* beatInterval = 60 / tempo.
C21_BeatIntervalOfTempo ==
    beat.result.ok =>
        /\ RatLt(Zero, beat.result.tempo)
        /\ RatMul(beat.result.beatInterval, beat.result.tempo) = Rat(60)
\* the long-gap detectBeat resolved with a tempo that is not a whole number of
\* beats per minute
C21_ResolvedFractionalTempo ==
    /\ beat.pc = "detectBeatLongGaps"
    /\ beat.result.ok
    /\ beat.result.tempo[2] # 1

\* the message detectBeat rejects with when the peak scan finds nothing, and
\* when the peaks give no tempo
C22_NoPeaks == "No se detectaron picos en el audio."
C22_NoTempo == "No se pudo determinar el tempo."
\* C22 as stated: on zero peaks detectBeat rejects with the 'no peaks
\* detected' error, on a single peak with the 'tempo could not be
\* determined' error, and a result it resolves with has a tempo that is
\* neither null nor zero.
C22_RejectsByCause ==
    beat.pc # "peaks" =>
        /\ Len(beat.peaks) = 0 => beat.result = Rejected(C22_NoPeaks)
        /\ Len(beat.peaks) = 1 => beat.result = Rejected(C22_NoTempo)
        /\ beat.result.ok => ~Falsy(beat.result.tempo)

\* C23: addDeck under an id that is registered constructs no deck and keeps
\* the deck that is there; removeDeck disposes the deck and then drops it, so
\* that getDeck finds nothing under the id; and at no time do two decks that
\* are not disposed carry the same id.
C23_Live(id) ==
    {i \in 1..Len(registry.made) :
        registry.made[i].deckId = id /\ registry.made[i].s.audioContext # "null"}
C23_OneDeckPerId ==
    \A id \in Decks :
        /\ has(registry, id) =>
              /\ addDeck(registry, id) = registry
              /\ addDeckInScene(registry, id) = registry
              /\ C23_Live(id) = {getDeck(registry, id)}
              /\ \E after \in {removeDeck(registry, id, Now)} :
                    /\ getDeck(after, id) = Undefined
                    /\ after.made[getDeck(registry, id)].s.audioContext = "null"
                    /\ Len(after.made) = Len(registry.made)
        /\ ~has(registry, id) =>
              /\ C23_Live(id) = {}
              /\ removeDeck(registry, id, Now) = registry
\* deck1 was added, removed and added again while deck2 stayed registered
C23_AddedAgain ==
    /\ has(registry, "deck1")
    /\ has(registry, "deck2")
    /\ \E i \in 1..Len(registry.made) :
          /\ registry.made[i].deckId = "deck1"
          /\ i < getDeck(registry, "deck1")
          /\ registry.made[i].s.audioContext = "null"

\* C24: setColorFX applies the frequency clamped to [20, 20000], the
\* resonance clamped to [0.1, 25] and a gain that is -100 dB when the mix
\* clamped to [0, 1] is 0 and 40 * mix - 20 dB otherwise; the gain of the
\* filter is therefore never outside [-100, 20].
C24_Clamped(lo, hi, v) == IF RatLt(v, lo) THEN lo ELSE IF RatLt(hi, v) THEN hi ELSE v
C24_Within(lo, hi, v) == RatLe(lo, v) /\ RatLe(v, hi)
C24_ColorFXClamped ==
    state.colorFXFilter # NoNode =>
        /\ C24_Within(Rat(20), Rat(20000), state.colorFXFilter.frequency)
        /\ C24_Within(Frac(1, 10), Rat(25), state.colorFXFilter.Q)
        /\ C24_Within(Rat(-100), Rat(20), state.colorFXFilter.gain)
        /\ \A frequency \in FXFrequencies, resonance \in FXResonances, mix \in FXMixes :
              \E fx \in {setColorFX(W, frequency, resonance, mix, Now).s.colorFXFilter} :
                 /\ fx.frequency = C24_Clamped(Rat(20), Rat(20000), frequency)
                 /\ fx.Q = C24_Clamped(Frac(1, 10), Rat(25), resonance)
                 /\ RatLe(mix, Zero) => fx.gain = Rat(-100)
                 /\ RatLt(Zero, mix) =>
                       RatAdd(fx.gain, Rat(20)) = RatMul(Rat(40), C24_Clamped(Zero, One, mix))
\* the filter after a call whose frequency and mix were both out of range
C24_BothLimits ==
    /\ state.colorFXFilter # NoNode
    /\ state.colorFXFilter.frequency = Rat(20000)
    /\ state.colorFXFilter.Q = Rat(4)
    /\ state.colorFXFilter.gain = Rat(20)


\* C25: the offset that setOffset stores for adjustBeat enters one position
\* update and is zero after it: no deck is ever left with an offset, and the
\* position a render tick computes for a deck is the position of its
\* transport (pausedAt, plus the time played at the playback rate), clamped
\* to the track, with nothing added.
C25_TransportPosition(t, now) ==
    RatMax(Zero, RatMin(t.trackDuration,
        IF t.isPlaying
        THEN RatAdd(t.pausedAt, RatMul(RatSub(now, t.startTime), t.playbackRate))
        ELSE t.pausedAt))
C25_XAt(t, position) ==
    RatMul(RatSub(Frac(WindowWidth, 2),
                  RatMul(RatDiv(position, t.trackDuration), Rat(WindowWidth))),
           t.currentTimelineScaleX)
C25_OffsetIsOneShot ==
    \A d \in Decks :
        tl[d].gen # 0 =>
            /\ tl[d].offset = Zero
            /\ \E a \in {animateDeck([tl |-> tl, nr |-> needsRender], d, Now)} :
                  tl[d].isPlaying =>
                      a.tl[d].x = C25_XAt(tl[d], C25_TransportPosition(tl[d], Now))
\* a playing deck right after a forward nudge: its timeline stands a tenth of
\* a second ahead of its transport, and a tick has drawn before
C25_Nudged ==
    /\ tl["deck1"].isPlaying
    /\ render.drew
    /\ tl["deck1"].offset = Zero
    /\ \E p \in {C25_TransportPosition(tl["deck1"], Now)} :
          /\ RatLt(RatAdd(p, Frac(1, 10)), tl["deck1"].trackDuration)
          /\ tl["deck1"].x = C25_XAt(tl["deck1"], RatAdd(p, Frac(1, 10)))
          /\ tl["deck1"].x # C25_XAt(tl["deck1"], p)

\* C26: at every render tick the target scale of a deck is
\* max(0.1, 2 - max(playbackRate, 0.1)) for the playback rate the deck has
\* then, whether it was playing or paused when the rate was last changed.
C26_TargetScaleOfRate ==
    \A d \in Decks :
        tl[d].gen # 0 =>
            \E t \in {animateDeck([tl |-> tl, nr |-> needsRender], d, Now).tl[d]} :
                t.targetTimelineScaleX =
                    RatMax(Frac(1, 10),
                           RatSub(Rat(2), RatMax(t.playbackRate, Frac(1, 10))))

\* C27: while the target scale of a deck does not change, every render tick
\* that finds the scale off its target leaves nine tenths of the distance, or
\* none when that would be less than 0.001; the scale reaches the target after
\* finitely many ticks and is equal to it from then on.
C27_Distance(t) == RatAbs(RatSub(t.currentTimelineScaleX, t.targetTimelineScaleX))
C27_ScaleConverges ==
    /\ [][\A d \in Decks :
            \E before \in {C27_Distance(tl[d])}, after \in {C27_Distance(tl'[d])} :
               /\ tl'[d].targetTimelineScaleX = tl[d].targetTimelineScaleX
               /\ \E left \in {RatMul(Frac(9, 10), before)} :
                     after = IF RatLt(left, Frac(1, 1000)) THEN Zero ELSE left]_vars
    /\ <>[](\A d \in Decks : tl[d].currentTimelineScaleX = tl[d].targetTimelineScaleX)
\* a scale that took more than one tick to reach its target, and the idle
\* tick after it
C27_Arrived ==
    /\ render.eased = MaxEased
    /\ ~render.drew
    /\ tl["deck1"].currentTimelineScaleX = tl["deck1"].targetTimelineScaleX
    /\ tl["deck1"].targetTimelineScaleX = Frac(1, 2)

\* C28: a render tick draws exactly when a render was asked for since the
\* last draw (the flag of the generator or of a deck is set, a deck is
\* playing, or a scale is on its way), and the draw clears the flags; a tick
\* with nothing pending draws nothing and moves nothing; a tick that moves a
\* timeline or a scale draws it, and any other step that changes a position,
\* a scale or the camera while the loop runs leaves a flag set, so that the
\* next tick draws.
C28_Flagged(tls, nr) == nr \/ \E d \in Decks : tls[d].gen # 0 /\ tls[d].needsRender
C28_Pending(tls, nr) ==
    \/ C28_Flagged(tls, nr)
    \/ \E d \in Decks :
          /\ tls[d].gen # 0
          /\ \/ tls[d].isPlaying
             \/ tls[d].currentTimelineScaleX # tls[d].targetTimelineScaleX
C28_DrawOnDemand ==
    [][/\ isRendering =>
             \E a \in {animate(tl, needsRender, render, Now)} :
                /\ a.r.drew <=> C28_Pending(tl, needsRender)
                /\ ~C28_Flagged(a.tl, a.nr)
                /\ Visual(a.tl, a.r) # Visual(tl, render) => a.r.drew
       /\ \/ RenderTick
          \/ (Visual(tl', render') # Visual(tl, render) /\ isRendering')
                => C28_Flagged(tl', needsRender')]_vars
\* the tick after the one that drew a camera change on a paused deck: it had
\* nothing to draw
C28_IdleTick ==
    /\ isRendering
    /\ render.camera = 1
    /\ ~render.drew
    /\ ~C28_Pending(tl, needsRender)
    /\ state.status = "paused"

C30_Offsets == {Rat(-5), Frac(-1, 10), Zero, Frac(1, 10), Rat(5)}
C30_ProgressOf(t) ==
    RatDiv(RatSub(Frac(WindowWidth, 2), RatDiv(t.x, t.currentTimelineScaleX)),
           Rat(WindowWidth))
C30_PositionWithinTrack ==
    \A d \in Decks, offset \in C30_Offsets :
        tl[d].gen # 0 =>
            \E u \in {updateTimelinePosition(
                          World(state, sources, [tl[d] EXCEPT !.offset = offset],
                                needsRender), Now).tl} :
               \E progress \in {C30_ProgressOf(u)} :
                  /\ RatLe(Zero, progress) /\ RatLe(progress, One)
                  /\ \E position \in {RatMul(progress, u.trackDuration)} :
                        RatLe(Zero, position) /\ RatLe(position, u.trackDuration)
\* a deck that a tick has drawn and that has played past the end of its
\* track: the update holds it at the end
C30_HeldAtEnd ==
    /\ render.drew
    /\ \E t \in {StateOf(tl, "deck1")} :
          /\ t.isPlaying
          /\ RatLt(t.trackDuration,
                   RatAdd(t.pausedAt, RatMul(RatSub(Now, t.startTime), t.playbackRate)))
          /\ C30_ProgressOf(updateTimelinePosition(W, Now).tl) = One

\* C33: every tempo entered into the histogram of the folding beat trackers,
\* and so the tempo they detect, is a whole number from 90 to 180, whatever
\* the positive intervals between the peaks
C33_TempoFolded ==
    beat.pc \in {"detectBeat", "detectBeatDynamicCutoff"} =>
        /\ \E h \in {TempoHistogram(beat.peaks)} :
               \A j \in DOMAIN h : h[j].key[2] = 1 /\ h[j].key[1] \in 90..180
        /\ beat.result.ok =>
               beat.result.tempo[2] = 1 /\ beat.result.tempo[1] \in 90..180

\* a tempo was detected from peaks of which one interval suggests less than
\* 90 BPM and another more than 180 BPM
C33_FoldedBothWays ==
    /\ beat.pc = "detectBeat"
    /\ beat.result.ok
    /\ \E i \in 1..(Len(beat.peaks) - 1) :
           RatLt(RatDiv(Rat(60), SecondsOf(beat.peaks[i + 1] - beat.peaks[i])), Rat(90))
    /\ \E i \in 1..(Len(beat.peaks) - 1) :
           RatLt(Rat(180), RatDiv(Rat(60), SecondsOf(beat.peaks[i + 1] - beat.peaks[i])))

\* C34: the detected tempo is an entry of the histogram that no entry
\* outnumbers, and of several such entries the one pushed first
C34_MostCountedFirstPushed ==
    (beat.pc \in {"detectBeat", "detectBeatDynamicCutoff"} /\ beat.result.ok) =>
        \E h \in {TempoHistogram(beat.peaks)} :
            \E j \in DOMAIN h :
                /\ h[j].key = beat.result.tempo
                /\ \A k \in DOMAIN h : h[k].count <= h[j].count
                /\ \A k \in DOMAIN h : k < j => h[k].count < h[j].count

\* a tempo was detected from a histogram in which a later entry has as many
\* intervals behind it as the first of the most counted
C34_TiedCounts ==
    /\ beat.pc = "detectBeatDynamicCutoff"
    /\ beat.result.ok
    /\ \E h \in {TempoHistogram(beat.peaks)} :
           \E j, k \in DOMAIN h :
               /\ j < k
               /\ h[j].count = h[k].count
               /\ \A l \in DOMAIN h : h[l].count <= h[j].count

-----------------------------------------------------------------------------
(* The peak scans *)

\* C31: the beat timestamps detectBeat returns increase strictly, and
\* firstBeatOffset is the first of them, whichever scan found the peaks
C31_BeatsIncrease ==
    scan.pc # "data" =>
        \E t \in {Timing(scan.peaks, scan.sampleRate)} :
            /\ \A k \in 1..(Len(t.beats) - 1) : RatLt(t.beats[k], t.beats[k + 1])
            /\ Len(t.beats) > 0 => t.firstBeatOffset = t.beats[1]

\* a similar-peak scan that took a local maximum at the far end of its window
\* and another peak after it
C31_LateLocalMax ==
    /\ scan.pc = "findSimilarPeaksLongGaps"
    /\ Len(scan.peaks) >= 2
    /\ scan.peaks[1] = windowSize - 1

\* C32: two consecutive peaks accepted by findSimilarPeaks are at least
\* floor(sampleRate * 0.1) samples apart
C32_MinGapBetweenPeaks ==
    scan.pc \in {"findSimilarPeaks", "findSimilarPeaksLongGaps"} =>
        \A k \in 1..(Len(scan.peaks) - 1) :
            scan.peaks[k + 1] - scan.peaks[k] >= scan.sampleRate \div 10

-----------------------------------------------------------------------------
(* Camera transitions *)

\* C35: a transition started while another is under way cancels it: in no
\* animation frame do two transitions write the camera position
C35_OneTweenPerFrame == tween.wrote <= 1

-----------------------------------------------------------------------------
(* The deck's three signs of playing *)

C37_Finished(s) ==
    /\ ~s.isPlaying
    /\ s.status = "loaded"
    /\ s.pausedAt = s.duration
    /\ s.source = 0
    /\ s.gainNode = NoNode
    /\ s.bassFilter = NoNode /\ s.midFilter = NoNode /\ s.trebleFilter = NoNode
    /\ s.colorFXFilter = NoNode

\* C37: when the source a deck plays reaches its end the deck is left not
\* playing, 'loaded', at its duration and without nodes; the ended event of
\* a source that pause, seek, changeTempo or reset stopped changes nothing of
\* the deck
C37_EndedHandlers ==
    /\ \A x \in sources :
           (state.isPlaying /\ x.id = state.source /\ ReachedEnd(x, Now)) =>
               C37_Finished(ended(W, x).s)
    /\ pending # NotFollowed =>
           \A x \in pending :
               \E w \in {IF x.onended THEN onended(W) ELSE W} :
                   w.s = state /\ w.src = sources /\ w.tl = StateOf(tl, "deck1")

\* the deck plays again, at the end of its track, while the ended event of a
\* source it stopped is yet to be dispatched
C37_StoppedAndEnding ==
    /\ pending # NotFollowed
    /\ pending # {}
    /\ state.isPlaying
    /\ \E x \in sources : x.id = state.source /\ ReachedEnd(x, Now)

-----------------------------------------------------------------------------
(* The timeline as a mirror of the deck *)

\* C38: whenever no handler is running, the timeline state of a loaded deck
\* has the deck's isPlaying, pausedAt, startTime and playbackRate
C38_TimelineMirrorsDeck ==
    TlBound(W) =>
        \E d \in {StateOf(tl, "deck1")} :
            /\ d.isPlaying = state.isPlaying
            /\ d.pausedAt = state.pausedAt
            /\ d.startTime = state.startTime
            /\ d.playbackRate = state.playbackRate

-----------------------------------------------------------------------------
(* The equaliser across restarts *)

\* the filters as play() builds them
C39_Neutral(s) ==
    /\ s.bassFilter = Filter("lowshelf", Rat(250), One, Zero)
    /\ s.midFilter = Filter("peaking", Rat(1000), One, Zero)
    /\ s.trebleFilter = Filter("highshelf", Rat(4000), One, Zero)
    /\ s.colorFXFilter = Filter("bandpass", Rat(1000), Frac(1, 10), Rat(-100))

\* what play(), and seek and changeTempo where they restart playback, make
\* of a deck
C39_Restarts ==
    {play(W, Now)} \cup {seek(W, f, Now).w : f \in SeekArgs}
                   \cup {changeTempo(W, bpm, Now) : bpm \in TempoArgs}

\* C39: every play(), those of seek and changeTempo included, leaves the
\* deck with filters at their neutral settings, whatever the setters wrote
\* before; on a deck that does not play the setters change nothing
C39_FiltersStartNeutral ==
    /\ \A after \in C39_Restarts :
           (after.s.isPlaying /\ after # W) => C39_Neutral(after.s)
    /\ ~state.isPlaying =>
           /\ \A gain \in EQGains :
                  /\ setBassGain(W, gain) = W
                  /\ setMidGain(W, gain) = W
                  /\ setTrebleGain(W, gain) = W
           /\ \A mix \in FXMixes : setColorFX(W, Rat(440), Rat(4), mix, Now) = W

\* a deck that plays with its bass raised, its treble cut and its colour
\* effect mixed in, which a seek would restart
C39_SetWhilePlaying ==
    /\ state.isPlaying
    /\ state.bassFilter.gain = Rat(6)
    /\ state.trebleFilter.gain = Rat(-12)
    /\ state.colorFXFilter.gain # Rat(-100)
    /\ \E f \in SeekArgs : seek(W, f, Now).w.s.isPlaying

-----------------------------------------------------------------------------
(* Position and scale in one frame *)

\* the progress of a deck along its track at a time
C40_ProgressAt(t, now) ==
    RatDiv(RatMax(Zero,
                  RatMin(IF t.isPlaying
                         THEN RatAdd(t.pausedAt,
                                     RatMul(RatSub(now, t.startTime), t.playbackRate))
                         ELSE t.pausedAt,
                         t.trackDuration)),
           t.trackDuration)

\* C40: in every frame a tick draws, the timeline of a deck stands at
\* (W / 2 - progress * W) times the scale the tick has applied, also while
\* the deck is paused and its scale still moves
C40_PositionMatchesScale ==
    isRendering =>
        \E a \in {animate(tl, needsRender, render, Now)} :
            a.r.drew =>
                \A d \in Decks :
                    (a.tl[d].gen # 0 /\ RatLt(Zero, a.tl[d].trackDuration)) =>
                        a.tl[d].x =
                            RatMul(RatSub(Frac(WindowWidth, 2),
                                          RatMul(C40_ProgressAt(a.tl[d], Now),
                                                 Rat(WindowWidth))),
                                   a.tl[d].currentTimelineScaleX)

====
